---- MODULE Spec2Model ----
(***************************************************************************)
(* A model of pybitcoin's cryptographic and serialization core:            *)
(* src/src/bitcoin (ecc, keys, ecdsa, script, tx, utils) and the legacy    *)
(* src/bitcoin modules.                                                    *)
(*                                                                         *)
(* Scale.  The program computes over secp256k1 with 256-bit integers and   *)
(* 32-byte digests.  The model keeps every algorithm as written and runs   *)
(* it on a curve of the same shape with one-byte field elements:           *)
(*   y^2 = x^3 + 7 over F_P, P = 211 (P % 4 = 3), generator of prime order *)
(*   N = 199, cofactor 1, 2^7 < N < P < 2^8, 7 a non-residue mod P,        *)
(* exactly the relations that hold between secp256k1's p, n and 2^256.     *)
(* A "32-byte big-endian" field is FieldBytes = 1 byte, a digest is one    *)
(* byte, and the hash functions of hashlib are replaced by small           *)
(* deterministic mixing functions over byte strings.                       *)
(*                                                                         *)
(* Byte strings are sequences of integers in 0..255.  Python's None is     *)
(* NoneVal.  An exception raised by the code is a distinguished value of   *)
(* the result's type (RaiseI, RaiseB, RaiseSig, RaisePt, "raise").         *)
(***************************************************************************)
EXTENDS Integers, Sequences, FiniteSets, TLC

VARIABLES
    sk,         \* the private key e handed to Signature.from_private
    msg,        \* the message bytes handed to validate_signature
    sig,        \* the Signature object in hand ([r, s]), NoSig or RaiseSig
    pub,        \* the public key handed to validate_signature
    verdict,    \* what validate_signature returned
    tamper,     \* which argument was changed after signing
    prior,      \* what the previous default-mode from_private call returned
    mode,       \* how sig was made: "none", "det" (randk=False) or "rand"
    orig,       \* the accepted (sig, msg, pub) a tampering started from
    key,        \* the integer a private-key generator returned
    gen,        \* which generator returned it
    theUtxo,    \* the transaction whose output is spent
    theTx,      \* the spending transaction
    txmsg,      \* the bytes handed to validate_tx as message
    signer,     \* the private key that signed input 0 (0: unsigned)
    changed,    \* whether tx's outputs were changed after signing
    pkarg,      \* the private key whose public key is handed to validate_tx
    txres,      \* what validate_tx returned
    encidx,     \* the sig_idx of the last Tx.encode call
    encoded,    \* what that call returned
    cop,        \* the codec operation applied to cin ("none": not yet)
    cin,        \* the input of a codec operation
    cout        \* what the operation returned

sigVars == <<sk, msg, sig, pub, verdict, tamper, prior, mode, orig>>

keyVars == <<key, gen>>

txVars == <<theUtxo, theTx, txmsg, signer, changed, pkarg, txres, encidx, encoded>>

codecVars == <<cop, cin, cout>>

vars == <<sigVars, keyVars, txVars, codecVars>>

----------------------------------------------------------------------------
(* Values standing for Python's None and for a raised exception.           *)

NoneVal == -1

\* an integer result that is an exception
RaiseI == -2

\* a byte-string result that is an exception
RaiseB == <<-2>>

\* no Signature object yet, and a Signature.from_private call that raised
NoSig == [r |-> -3, s |-> -3]

RaiseSig == [r |-> RaiseI, s |-> RaiseI]

----------------------------------------------------------------------------
(* secp256k1.py: the curve, scaled.                                        *)

P == 211

A == 0

B == 7

Gx == 3

Gy == 33

N == 199

E == [p |-> P, a |-> A, b |-> B]

\* Curve(P, -1, 0): y^2 = x^3 - x over the same field, a curve with points
\* of order 2
E2 == [p |-> P, a |-> P - 1, b |-> 0]

\* the Curve object behind a Point's curve field: 1 is E, 2 is E2
CurveOf(c) == IF c = 2 THEN E2 ELSE E

\* A Point is [curve, x, y]; curve = 1 is the Curve object E, curve = 0 is
\* curve None (the INF built by Point.__add__).
Pt(x, y) == [curve |-> 1, x |-> x, y |-> y]

G == Pt(Gx, Gy)

\* Point(self.curve, None, None): the point at infinity Point.__rmul__ starts from.
InfOn == [curve |-> 1, x |-> NoneVal, y |-> NoneVal]

\* self.__class__(None, None, None): the point at infinity Point.__add__ returns.
INF == [curve |-> 0, x |-> NoneVal, y |-> NoneVal]

\* An exception raised while computing a point.
RaisePt == [curve |-> -1, x |-> NoneVal, y |-> NoneVal]

----------------------------------------------------------------------------
(* utils/ints.py                                                           *)

RECURSIVE pow(_, _, _)
\* Python's three-argument pow(b, e, m), e >= 0, by square and multiply.
pow(b, e, m) ==
    IF e = 0 THEN 1 % m
    ELSE LET h == pow(b, e \div 2, m)
             q == (h * h) % m
         IN  IF e % 2 = 1 THEN (q * (b % m)) % m ELSE q

\* a modulardiv that multiplies by b^(p-1), which is 1, not by the inverse
modulardiv_NoInverse(a, b, p) == (a * pow(b, p - 1, p)) % p

\* modulardiv(a, b, p): a times the Fermat inverse of b
modulardiv(a, b, p) == (a * pow(b, p - 2, p)) % p

\* the legacy Element(num, order) of src/bitcoin/base.py; its assertions fail
\* outside 0 <= num < order
Element(num, order) ==
    IF num >= 0 /\ num < order THEN [num |-> num, order |-> order]
    ELSE [num |-> RaiseI, order |-> order]

\* Element.__truediv__: self / ele, for elements of the same order
Element_truediv(self, ele) ==
    IF self.num = RaiseI \/ ele.num = RaiseI \/ self.order # ele.order
    THEN [num |-> RaiseI, order |-> self.order]
    ELSE Element((self.num * pow(ele.num, self.order - 2, self.order)) % self.order,
                 self.order)

\* a modularsqrt with the exponent (p - 1) // 4
modularsqrt_LowExponent(x, p) == pow(x, (p - 1) \div 4, p)

modularsqrt(x, p) == pow(x, (p + 1) \div 4, p)

----------------------------------------------------------------------------
(* ecc.py                                                                  *)

\* Point.__add__
PointAdd(self, other) ==
    IF self.curve = -1 \/ other.curve = -1 THEN RaisePt
    ELSE IF self.curve = 0 THEN RaisePt            \* prime = self.curve.p on None
    ELSE IF self.x = NoneVal THEN other
    ELSE IF other.x = NoneVal THEN self
    ELSE IF self.x = other.x /\ self.y # other.y THEN INF
    ELSE LET prime == CurveOf(self.curve).p
             m == IF self.x = other.x
                  THEN modulardiv(3 * self.x * self.x + CurveOf(self.curve).a,
                                  2 * self.y, prime)
                  ELSE modulardiv(self.y - other.y, self.x - other.x, prime)
             rx == (m * m - self.x - other.x) % prime
             ry == (-(m * (rx - self.x) + self.y)) % prime
         IN  [curve |-> self.curve, x |-> rx, y |-> ry]

RECURSIVE rmulLoop(_, _, _)
\* the while loop of Point.__rmul__: res, curr, n
rmulLoop(res, curr, n) ==
    IF n = 0 THEN res
    ELSE rmulLoop(IF n % 2 = 1 THEN PointAdd(res, curr) ELSE res,
                  PointAdd(curr, curr),
                  n \div 2)

\* Point.__rmul__: n * self
PointMul(n, self) ==
    IF self.curve = -1 THEN RaisePt
    ELSE rmulLoop([curve |-> self.curve, x |-> NoneVal, y |-> NoneVal], self, n)

----------------------------------------------------------------------------
(* Byte strings and int.to_bytes / int.from_bytes                          *)

RECURSIVE Pow256(_)
Pow256(n) == IF n = 0 THEN 1 ELSE 256 * Pow256(n - 1)

\* i.to_bytes(n, "big"); OverflowError when i does not fit
to_bytes_big(i, n) ==
    IF i < 0 \/ i >= Pow256(n) THEN RaiseB
    ELSE [k \in 1..n |-> (i \div Pow256(n - k)) % 256]

RECURSIVE from_bytes_big(_)
\* int.from_bytes(b, "big")
from_bytes_big(b) ==
    IF Len(b) = 0 THEN 0
    ELSE 256 * from_bytes_big(SubSeq(b, 1, Len(b) - 1)) + b[Len(b)]

Reverse(b) == [k \in 1..Len(b) |-> b[Len(b) + 1 - k]]

\* b * n for a bytes object b
RECURSIVE Repeat(_, _)
Repeat(b, n) == IF n = 0 THEN <<>> ELSE b \o Repeat(b, n - 1)

----------------------------------------------------------------------------
(* utils/hashfns.py.  hashlib's compression functions are replaced by a    *)
(* byte-wise multiply-and-add mixing with a one-byte digest; what the      *)
(* repository composes from them (hash256, hash160, HMAC's two passes) is  *)
(* composed as in the code.                                                *)

\* the width of a digest and of a field element, in bytes (32 in the program)
FieldBytes == 1

RECURSIVE MixAt(_, _, _, _)
MixAt(s, i, h, mult) ==
    IF h < 0 \/ i > Len(s) THEN h
    ELSE MixAt(s, i + 1,
               ((h + s[i] + 1) * mult + ((h * h) \div 16)) % 256,
               mult)

MixFold(s, h, mult) == MixAt(s, 1, h, mult)

sha256(s) == <<MixFold(s, 106, 37)>>

ripemd160(s) == <<MixFold(s, 103, 45)>>

hash256(s) == sha256(sha256(s))

hash160(s) == ripemd160(sha256(s))

\* hmac.new(key, m, hashlib.sha256).digest(): H(opad key + H(ipad key + m))
hmac(k, m) ==
    LET ipad == [i \in 1..Len(k) |-> (k[i] + 54) % 256]
        opad == [i \in 1..Len(k) |-> (k[i] + 92) % 256]
    IN  sha256(opad \o sha256(ipad \o m))

----------------------------------------------------------------------------
(* ecdsa.py                                                                *)

\* how many times the candidate loop of rfc6979 is followed
MaxRetry == 8

RECURSIVE rfc6979Loop(_, _, _)
\* the while True loop of rfc6979
rfc6979Loop(k, v, fuel) ==
    LET v1 == hmac(k, v)
        cand == from_bytes_big(v1)
    IN  IF 1 <= cand /\ cand < N THEN cand
        ELSE IF fuel = 0 THEN RaiseI
        ELSE LET k2 == hmac(k, v1 \o <<0>>)
             IN  rfc6979Loop(k2, hmac(k2, v1), fuel - 1)

\* one round of the for loop of rfc6979 over the separator i
rfc6979Round(kv, i, skb, zb) ==
    LET k1 == hmac(kv.k, kv.v \o <<i>> \o skb \o zb)
    IN  [k |-> k1, v |-> hmac(k1, kv.v)]

\* k = b"0x00" * 32: b"0x00" is the four characters '0', 'x', '0', '0'
rfc6979_k == Repeat(<<48, 120, 48, 48>>, FieldBytes)

\* v = b"0x01" * 32
rfc6979_v == Repeat(<<48, 120, 48, 49>>, FieldBytes)

\* z as rfc6979 encodes it: if z > N: z -= N, then z.to_bytes(32, "big")
rfc6979_z(z) == to_bytes_big(IF z > N THEN z - N ELSE z, FieldBytes)

\* rfc6979 up to its while loop: the initial k and v, the encoded z and sk, and
\* k, v after each of the two rounds
rfc6979Rounds(e, z) ==
    LET zb == rfc6979_z(z)
        skb == to_bytes_big(e, FieldBytes)
        start == [k |-> rfc6979_k, v |-> rfc6979_v]
        raised == zb = RaiseB \/ skb = RaiseB
        kv1 == IF raised THEN start ELSE rfc6979Round(start, 0, skb, zb)
        kv2 == IF raised THEN start ELSE rfc6979Round(kv1, 1, skb, zb)
    IN  [k |-> start.k, v |-> start.v, z |-> zb, sk |-> skb, kv1 |-> kv1, kv2 |-> kv2]

\* rfc6979(sk, z)
rfc6979(e, z) ==
    LET st == rfc6979Rounds(e, z)
    IN  IF st.z = RaiseB \/ st.sk = RaiseB THEN RaiseI
        ELSE rfc6979Loop(st.kv2.k, st.kv2.v, MaxRetry)

\* the mantissa of the float N/2 is computed in (53 bits against N's 256)
MantBits == 5

RECURSIVE BitLen(_)
BitLen(n) == IF n = 0 THEN 0 ELSE 1 + BitLen(n \div 2)

RECURSIVE Pow2(_)
Pow2(n) == IF n = 0 THEN 1 ELSE 2 * Pow2(n - 1)

\* n / 2 as Python computes it: the quotient rounded to the nearest float
\* (ties to even), as the fraction num / den.
TrueDivHalf(n) ==
    LET shift == BitLen(n) - MantBits
    IN  IF shift <= 0 THEN [num |-> n, den |-> 2]
        ELSE LET q == n \div Pow2(shift)
                 rem == n % Pow2(shift)
                 half == Pow2(shift - 1)
                 up == rem > half \/ (rem = half /\ q % 2 = 1)
             IN  [num |-> (IF up THEN q + 1 ELSE q) * half, den |-> 1]

\* a from_private that draws k at random whatever randk says
NonceOf_AlwaysRandom(e, z, randk, kr) == kr

\* the k Signature.from_private signs with: randsk() or rfc6979(sk, z)
NonceOf(e, z, randk, kr) == IF randk THEN kr ELSE rfc6979(e, z)

\* s after "if s > N/2: s = N - s"
LowS(s) ==
    LET f == TrueDivHalf(N)
    IN  IF s * f.den > f.num THEN N - s ELSE s

\* Signature.from_private(sk, z, randk), kr being what randsk() returns
from_private(e, z, randk, kr) ==
    LET k == NonceOf(e, z, randk, kr)
        r == PointMul(k, G).x
    IN  IF k = RaiseI \/ r = NoneVal THEN RaiseSig     \* r * sk with r None
        ELSE [r |-> r, s |-> LowS(modulardiv(z + r * e, k, N))]

\* a validate_signature that stops after the two range assertions
validate_signature_RangeOnly(p, message, sg) ==
    IF ~(1 <= sg.r /\ sg.r <= N) THEN "raise"
    ELSE IF ~(1 <= sg.s /\ sg.s <= N) THEN "raise"
    ELSE "true"

\* validate_signature(p, message, sig): "true", "false" or "raise"
validate_signature(p, message, sg) ==
    IF ~(1 <= sg.r /\ sg.r <= N) THEN "raise"
    ELSE IF ~(1 <= sg.s /\ sg.s <= N) THEN "raise"
    ELSE LET z == from_bytes_big(hash256(message))
             u == modulardiv(z, sg.s, N)
             v == modulardiv(sg.r, sg.s, N)
             R == PointAdd(PointMul(u, G), PointMul(v, p))
         IN  IF R = RaisePt THEN "raise"
             ELSE IF R.x = sg.r THEN "true" ELSE "false"

----------------------------------------------------------------------------
(* keys.py                                                                 *)

\* PublicKey.from_private(priv)
PublicKey_from_private(priv) == PointMul(priv, G)

----------------------------------------------------------------------------
(* utils/ints.py: the integer codec                                        *)

RECURSIVE to_bytes_little(_, _)
\* i.to_bytes(n, "little"); OverflowError when i does not fit
to_bytes_little(i, n) ==
    IF i < 0 THEN RaiseB
    ELSE IF n = 0 THEN (IF i = 0 THEN <<>> ELSE RaiseB)
    ELSE LET rest == to_bytes_little(i \div 256, n - 1)
         IN  IF rest = RaiseB THEN RaiseB ELSE <<i % 256>> \o rest

\* encode_int(i, num_bytes), encoding="little"
encode_int(i, n) == to_bytes_little(i, n)

RECURSIVE Join(_)
\* b"".join(parts); an exception raised while a part was computed propagates
Join(parts) ==
    IF Len(parts) = 0 THEN <<>>
    ELSE LET rest == Join(Tail(parts))
         IN  IF Head(parts) = RaiseB \/ rest = RaiseB THEN RaiseB
             ELSE Head(parts) \o rest

\* BytesIO.read(n) at 0-based position pos of b
Read(b, pos, n) ==
    SubSeq(b, pos + 1, IF pos + n > Len(b) THEN Len(b) ELSE pos + n)

\* An integer of up to 64 bits and beyond is a "wide" integer: its WideLimbs
\* digits to base 65536, the lowest first.
WideLimbs == 5

\* the wide integer of an integer 0 <= i < 2^31
ToWide(i) ==
    [k \in 1..WideLimbs |->
        IF k = 1 THEN i % 65536 ELSE IF k = 2 THEN i \div 65536 ELSE 0]

\* w < 65536^limbs
WideBelow(w, limbs) == \A k \in (limbs + 1)..WideLimbs : w[k] = 0

\* w < 2^31, and then its integer
WideIsInt(w) == w[2] < 32768 /\ WideBelow(w, 2)

ToInt(w) == w[1] + 65536 * w[2]

\* the bytes of w, the lowest first
WideBytes(w) ==
    [j \in 1..(2 * WideLimbs) |->
        IF j % 2 = 1 THEN w[(j + 1) \div 2] % 256 ELSE w[j \div 2] \div 256]

\* encode_int(i, num_bytes) for a wide i: i.to_bytes(num_bytes, "little"),
\* OverflowError when i does not fit
encode_intW(w, n) ==
    IF \E j \in (n + 1)..(2 * WideLimbs) : WideBytes(w)[j] # 0 THEN RaiseB
    ELSE SubSeq(WideBytes(w), 1, n)

\* int.from_bytes(b, "little") as a wide integer
from_bytes_littleW(b) ==
    [k \in 1..WideLimbs |->
        (IF 2 * k - 1 <= Len(b) THEN b[2 * k - 1] ELSE 0)
        + 256 * (IF 2 * k <= Len(b) THEN b[2 * k] ELSE 0)]

\* decode_int(s, nbytes) with the stream s at position pos of b: the value
\* and the position the stream is left at
decode_intW(b, pos, nbytes) ==
    [v |-> from_bytes_littleW(Read(b, pos, nbytes)),
     pos |-> pos + Len(Read(b, pos, nbytes))]

\* an encode_varint whose one-byte form also takes 0xFD
encode_varintW_OneByteFD(w) ==
    IF WideBelow(w, 1) /\ w[1] <= 253 THEN <<w[1]>>
    ELSE IF WideBelow(w, 1) THEN Join(<< <<253>>, encode_intW(w, 2) >>)
    ELSE IF WideBelow(w, 2) THEN Join(<< <<254>>, encode_intW(w, 4) >>)
    ELSE IF WideBelow(w, 4) THEN Join(<< <<255>>, encode_intW(w, 8) >>)
    ELSE RaiseB

\* encode_varint(i) for a wide i >= 0
encode_varintW(w) ==
    IF WideBelow(w, 1) /\ w[1] < 253 THEN <<w[1]>>
    ELSE IF WideBelow(w, 1) THEN Join(<< <<253>>, encode_intW(w, 2) >>)
    ELSE IF WideBelow(w, 2) THEN Join(<< <<254>>, encode_intW(w, 4) >>)
    ELSE IF WideBelow(w, 4) THEN Join(<< <<255>>, encode_intW(w, 8) >>)
    ELSE RaiseB                                 \* ValueError

\* decode_varint(s) with the stream s at position pos of b
decode_varintW(b, pos) ==
    LET i == decode_intW(b, pos, 1)
    IN  IF i.v = ToWide(253) THEN decode_intW(b, i.pos, 2)
        ELSE IF i.v = ToWide(254) THEN decode_intW(b, i.pos, 4)
        ELSE IF i.v = ToWide(255) THEN decode_intW(b, i.pos, 8)
        ELSE i

\* encode_varint(i) for an integer i < 2^31
encode_varint(i) ==
    IF i < 0 THEN RaiseB                        \* bytes([i]) with i < 0
    ELSE encode_varintW(ToWide(i))

----------------------------------------------------------------------------
(* script/script.py                                                        *)

\* A Script's command is an opcode (a Python int) or a data push (bytes).
Op(n) == [isop |-> TRUE, op |-> n, data |-> <<>>]

Push(b) == [isop |-> FALSE, op |-> 0, data |-> b]

\* what Script.encode emits for one command
EncodeCommand(cmd) ==
    IF cmd.isop THEN encode_int(cmd.op, 1)
    ELSE LET cmd_len == Len(cmd.data)
         IN  IF cmd_len < 75
             THEN Join(<< encode_int(cmd_len, 1), cmd.data >>)
             ELSE IF 76 <= cmd_len /\ cmd_len <= 255
             THEN Join(<< encode_int(76, 1), encode_int(cmd_len, 1), cmd.data >>)
             ELSE IF 256 <= cmd_len /\ cmd_len <= 520
             THEN Join(<< encode_int(77, 1), encode_int(cmd_len, 2), cmd.data >>)
             ELSE RaiseB

\* Script.encode(): the commands' bytes behind the varint of their length
Script_encode(commands) ==
    LET ret == Join([i \in 1..Len(commands) |-> EncodeCommand(commands[i])])
    IN  IF ret = RaiseB THEN RaiseB ELSE encode_varint(Len(ret)) \o ret

\* Script.__add__: self + other
Script_add(self, other) == other \o self

\* a Script.decode that could not be followed to its end
RaiseScript == [cmds |-> << Push(RaiseB) >>, pos |-> -1]

\* the most rounds Script.decode's loop is followed through once the stream
\* is at its end
MaxTail == 8

\* a script whose length prefix exceeds MaxScriptLen bytes is not followed:
\* the longest script serialized here is a 520-byte push with its header
MaxScriptLen == 600

RECURSIVE ScriptDecodeLoop(_, _, _, _, _)
\* the while i < l loop of Script.decode, the stream at position pos of b.
\* At the end of the stream b.read(1) is b"", curr is 0, and every further
\* round appends the opcode 0.
ScriptDecodeLoop(b, pos, i, l, cmds) ==
    IF pos < 0 \/ i >= l \/ Len(cmds) < 0 THEN [cmds |-> cmds, pos |-> pos]
    ELSE IF pos >= Len(b)
    THEN IF l - i > MaxTail THEN RaiseScript
         ELSE [cmds |-> cmds \o [k \in 1..(l - i) |-> Op(0)], pos |-> pos]
    ELSE LET curr == from_bytes_big(Read(b, pos, 1))
             p1 == pos + Len(Read(b, pos, 1))
         IN  IF 1 <= curr /\ curr <= 75
             THEN ScriptDecodeLoop(b, p1 + Len(Read(b, p1, curr)), i + curr + 1, l,
                                   Append(cmds, Push(Read(b, p1, curr))))
             ELSE IF curr \in {76, 77}
             THEN LET d == decode_intW(b, p1, curr - 75)
                      datalen == ToInt(d.v)
                      data == Read(b, d.pos, datalen)
                  IN  ScriptDecodeLoop(b, d.pos + Len(data), i + datalen + 1, l,
                                       Append(cmds, Push(data)))
             ELSE ScriptDecodeLoop(b, p1, i + 1, l, Append(cmds, Op(curr)))

\* Script.decode(b), the stream at position pos of b: the commands and the
\* position the stream is left at
Script_decode(b, pos) ==
    LET l == decode_varintW(b, pos)
    IN  IF ~WideIsInt(l.v) THEN RaiseScript      \* more commands than are followed
        ELSE IF ToInt(l.v) > MaxScriptLen THEN RaiseScript
        ELSE IF ToInt(l.v) = 0 THEN [cmds |-> <<>>, pos |-> l.pos]
        ELSE ScriptDecodeLoop(b, l.pos, 0, ToInt(l.v), <<>>)

\* the length of a hash160 digest in bytes (20 in the program)
PkhBytes == 1

\* p2pkh_script(pkhash); RaiseB stands for its AssertionError
p2pkh_script(pkhash) ==
    IF Len(pkhash) # PkhBytes THEN << Push(RaiseB) >>
    ELSE << Op(118), Op(169), Push(pkhash), Op(136), Op(172) >>

----------------------------------------------------------------------------
(* ecdsa.py: DER                                                           *)

RECURSIVE lstrip0(_)
\* b.lstrip(b"\x00")
lstrip0(b) == IF Len(b) > 0 /\ Head(b) = 0 THEN lstrip0(Tail(b)) ELSE b

\* Signature.encode()
Signature_encode(sg) ==
    LET r32 == to_bytes_big(sg.r, FieldBytes)
        s32 == to_bytes_big(sg.s, FieldBytes)
        rbin == lstrip0(r32)
        sbin == lstrip0(s32)
    IN  IF r32 = RaiseB \/ s32 = RaiseB THEN RaiseB     \* OverflowError
        ELSE IF Len(rbin) = 0 \/ Len(sbin) = 0 THEN RaiseB   \* rbin[0], sbin[0]
        ELSE LET rb == IF rbin[1] >= 128 THEN <<0>> \o rbin ELSE rbin
                 sb == IF sbin[1] >= 128 THEN <<0>> \o sbin ELSE sbin
                 res == <<2, Len(rb)>> \o rb \o <<2, Len(sb)>> \o sb
             IN  <<48, Len(res)>> \o res

\* Signature.decode(sig_bytes), sig_bytes a script command
Signature_decode(cmd) ==
    IF cmd.isop THEN RaiseSig                          \* ensure_stream's assert
    ELSE LET b == cmd.data
             n == Len(b)
         IN  IF n < 1 \/ b[1] # 48 THEN RaiseSig
             ELSE IF n < 2 \/ b[2] # n - 3 THEN RaiseSig
             ELSE IF n < 3 \/ b[3] # 2 THEN RaiseSig
             ELSE IF n < 4 THEN RaiseSig
             ELSE LET rlength == b[4]
                      r == from_bytes_big(Read(b, 4, rlength))
                      p1 == 4 + Len(Read(b, 4, rlength))
                  IN  IF n < p1 + 1 \/ b[p1 + 1] # 2 THEN RaiseSig
                      ELSE IF n < p1 + 2 THEN RaiseSig
                      ELSE LET slength == b[p1 + 2]
                               s == from_bytes_big(Read(b, p1 + 2, slength))
                           IN  IF n # 7 + rlength + slength THEN RaiseSig
                               ELSE [r |-> r, s |-> s]

----------------------------------------------------------------------------
(* keys.py: SEC                                                            *)

\* PublicKey.encode(compressed, hash_160)
PublicKey_encode(pt, compressed, hash_160) ==
    LET xb == to_bytes_big(pt.x, FieldBytes)
        yb == to_bytes_big(pt.y, FieldBytes)
        pubkey == IF compressed
                  THEN Join(<< IF pt.y % 2 = 0 THEN <<2>> ELSE <<3>>, xb >>)
                  ELSE Join(<< <<4>>, xb, yb >>)
    IN  IF pt.x = NoneVal \/ pubkey = RaiseB THEN RaiseB
        ELSE IF hash_160 THEN hash160(pubkey) ELSE pubkey

\* PublicKey.decode(b), b a script command
PublicKey_decode(cmd) ==
    IF cmd.isop THEN RaisePt                           \* assert isinstance(b, bytes)
    ELSE LET b == cmd.data
         IN  IF Len(b) = 0 THEN RaisePt                \* b[0]
             ELSE IF b[1] = 4
             THEN Pt(from_bytes_big(Read(b, 1, FieldBytes)),
                     from_bytes_big(Read(b, 1 + FieldBytes, FieldBytes)))
             ELSE IF b[1] \in {2, 3}
             THEN LET even == b[1] = 2
                      x == from_bytes_big(Tail(b))
                      y2 == (pow(x, 3, P) + 7) % P
                      y == modularsqrt(y2, P)
                  IN  Pt(x, IF even # (y % 2 = 0) THEN P - y ELSE y)
             ELSE RaisePt

----------------------------------------------------------------------------
(* tx.py.  A Tx is [version, inputs, outputs, locktime]; an input is       *)
(* [prev_tx, prev_idx, script_sig, seq], an output [amount,                *)
(* script_pubkey]; a script is the list of its commands.                   *)

\* an encode_inputs that serializes every script_sig as stored
Tx_encode_inputs_AllStored(self, sig_idx) ==
    Join([idx \in 1..Len(self.inputs) |->
            Join(<< Reverse(self.inputs[idx].prev_tx),
                    encode_int(self.inputs[idx].prev_idx, 4),
                    Script_encode(self.inputs[idx].script_sig),
                    encode_int(self.inputs[idx].seq, 4) >>)])

\* Tx.encode_inputs(sig_idx)
Tx_encode_inputs(self, sig_idx) ==
    Join([idx \in 1..Len(self.inputs) |->
            LET inp == self.inputs[idx]
                script_sig_b == IF sig_idx = -1 \/ sig_idx = idx - 1
                                THEN Script_encode(inp.script_sig)
                                ELSE Script_encode(<<>>)
            IN  Join(<< Reverse(inp.prev_tx),
                        encode_int(inp.prev_idx, 4),
                        script_sig_b,
                        encode_int(inp.seq, 4) >>)])

\* Tx.encode_outputs()
Tx_encode_outputs(self) ==
    Join([o \in 1..Len(self.outputs) |->
            Join(<< encode_int(self.outputs[o].amount, 8),
                    Script_encode(self.outputs[o].script_pubkey) >>)])

\* Tx.encode(sig_idx)
Tx_encode(self, sig_idx) ==
    Join(<< encode_int(self.version, 4),
            encode_varint(Len(self.inputs)),
            Tx_encode_inputs(self, sig_idx),
            encode_varint(Len(self.outputs)),
            Tx_encode_outputs(self),
            encode_int(self.locktime, 4),
            IF sig_idx # -1 THEN encode_int(1, 4) ELSE <<>> >>)

RECURSIVE SumAmounts(_)
\* sum([out["amount"] for out in outputs])
SumAmounts(outputs) ==
    IF Len(outputs) = 0 THEN 0
    ELSE Head(outputs).amount + SumAmounts(Tail(outputs))

\* validate_tx from "pkhash = ..." on: the checks behind the amount check
ValidateTxChecks(script_sig_cmds, script_pubkey_cmds, message, public_key) ==
    LET pkhash == PublicKey_encode(public_key, TRUE, TRUE)
    IN  IF pkhash = RaiseB \/ Len(script_pubkey_cmds) < 3 THEN "raise"
        ELSE IF script_pubkey_cmds[3].isop \/ script_pubkey_cmds[3].data # pkhash
        THEN "false"
        ELSE IF Len(script_sig_cmds) < 2 THEN "raise"
        ELSE LET sg == Signature_decode(script_sig_cmds[1])
                 pk == PublicKey_decode(script_sig_cmds[2])
             IN  IF sg = RaiseSig \/ pk = RaisePt THEN "raise"
                 ELSE validate_signature(pk, message, sg)

\* a validate_tx without the amount check
validate_tx_NoAmountCheck(utxo, tx, message, public_key) ==
    IF Len(tx.inputs) = 0 \/ tx.inputs[1].prev_idx >= Len(utxo.outputs) THEN "raise"
    ELSE ValidateTxChecks(tx.inputs[1].script_sig,
                          utxo.outputs[tx.inputs[1].prev_idx + 1].script_pubkey,
                          message, public_key)

\* validate_tx(utxo, tx, message, public_key): "true", "false" or "raise"
validate_tx(utxo, tx, message, public_key) ==
    IF Len(tx.inputs) = 0 \/ tx.inputs[1].prev_idx >= Len(utxo.outputs) THEN "raise"
    ELSE LET prev == tx.inputs[1].prev_idx
             script_sig_cmds == tx.inputs[1].script_sig
             script_pubkey_cmds == utxo.outputs[prev + 1].script_pubkey
             input_amt == utxo.outputs[prev + 1].amount
             output_amt == SumAmounts(tx.outputs)
         IN  IF output_amt > input_amt THEN "false"
             ELSE ValidateTxChecks(script_sig_cmds, script_pubkey_cmds,
                                   message, public_key)

\* the length of a transaction id in bytes (32 in the program)
TxidBytes == 2

\* the most inputs, outputs or witness items Tx.decode is followed through
MaxCount == 6

\* a Tx.decode that raised, or that was not followed to its end
RaiseTx ==
    [tx |-> [version |-> ToWide(0), inputs |-> <<>>, outputs |-> <<>>,
             locktime |-> ToWide(0)],
     witness |-> <<>>, segwit |-> FALSE, pos |-> -1]

\* a count read by decode_varint that range() can be followed through
CountOk(w) == WideIsInt(w) /\ ToInt(w) <= MaxCount

RECURSIVE DecodeInputs(_, _, _, _)
\* the "for n in range(num_inputs)" loop of Tx.decode
DecodeInputs(b, pos, n, acc) ==
    IF pos < 0 \/ n = 0 \/ Len(acc) < 0 THEN [list |-> acc, pos |-> pos]
    ELSE LET prev_tx == Reverse(Read(b, pos, TxidBytes))
             p1 == pos + Len(prev_tx)
             prev_idx == decode_intW(b, p1, 4)
             script_sig == Script_decode(b, prev_idx.pos)
             seq == decode_intW(b, script_sig.pos, 4)
         IN  IF script_sig = RaiseScript THEN [list |-> acc, pos |-> -1]
             ELSE DecodeInputs(b, seq.pos, n - 1,
                               Append(acc, [prev_tx |-> prev_tx,
                                            prev_idx |-> prev_idx.v,
                                            script_sig |-> script_sig.cmds,
                                            seq |-> seq.v]))

RECURSIVE DecodeOutputs(_, _, _, _)
\* the "for n in range(num_outputs)" loop of Tx.decode
DecodeOutputs(b, pos, n, acc) ==
    IF pos < 0 \/ n = 0 \/ Len(acc) < 0 THEN [list |-> acc, pos |-> pos]
    ELSE LET amt == decode_intW(b, pos, 8)
             script_pubkey == Script_decode(b, amt.pos)
         IN  IF script_pubkey = RaiseScript THEN [list |-> acc, pos |-> -1]
             ELSE DecodeOutputs(b, script_pubkey.pos, n - 1,
                                Append(acc, [amount |-> amt.v,
                                             script_pubkey |-> script_pubkey.cmds]))

RECURSIVE DecodeItems(_, _, _, _)
\* the "for _ in range(num_items)" loop of Tx.decode; the int 0 that stands
\* for an item of length 0 is Op(0)
DecodeItems(b, pos, n, acc) ==
    IF pos < 0 \/ n = 0 \/ Len(acc) < 0 THEN [list |-> acc, pos |-> pos]
    ELSE LET item_len == decode_varintW(b, pos)
         IN  IF ~WideIsInt(item_len.v) THEN [list |-> acc, pos |-> -1]
             ELSE IF ToInt(item_len.v) = 0
             THEN DecodeItems(b, item_len.pos, n - 1, Append(acc, Op(0)))
             ELSE LET item == Read(b, item_len.pos, ToInt(item_len.v))
                  IN  DecodeItems(b, item_len.pos + Len(item), n - 1,
                                  Append(acc, Push(item)))

RECURSIVE DecodeWitness(_, _, _, _)
\* the "for i in inputs" loop of Tx.decode
DecodeWitness(b, pos, n, acc) ==
    IF pos < 0 \/ n = 0 \/ Len(acc) < 0 THEN [list |-> acc, pos |-> pos]
    ELSE LET num_items == decode_varintW(b, pos)
         IN  IF ~CountOk(num_items.v) THEN [list |-> acc, pos |-> -1]
             ELSE LET items == DecodeItems(b, num_items.pos, ToInt(num_items.v), <<>>)
                  IN  DecodeWitness(b, items.pos, n - 1, Append(acc, items.list))

\* Tx.decode from the locktime on: the Tx it returns (its integers wide),
\* the witness and the segwit flag it had in hand when it returned, and where
\* it left the stream
TxDecodeLocktime(b, version, segwit, inputs, outputs, witness) ==
    IF witness.pos < 0 THEN RaiseTx
    ELSE [tx |-> [version |-> version,
                  inputs |-> inputs,
                  outputs |-> outputs,
                  locktime |-> decode_intW(b, witness.pos, 4).v],
          witness |-> witness.list,
          segwit |-> segwit,
          pos |-> decode_intW(b, witness.pos, 4).pos]

\* Tx.decode from "if segwit:" on, outputs the outcome of the outputs loop
TxDecodeWitness(b, version, segwit, inputs, outputs) ==
    IF outputs.pos < 0 THEN RaiseTx
    ELSE TxDecodeLocktime(b, version, segwit, inputs, outputs.list,
                          IF segwit
                          THEN DecodeWitness(b, outputs.pos, Len(inputs), <<>>)
                          ELSE [list |-> <<>>, pos |-> outputs.pos])

\* Tx.decode from num_outputs on, inputs the outcome of the inputs loop and
\* num_outputs the varint read after it
TxDecodeOutputs(b, version, segwit, inputs, num_outputs) ==
    IF inputs.pos < 0 \/ ~CountOk(num_outputs.v) THEN RaiseTx
    ELSE TxDecodeWitness(b, version, segwit, inputs.list,
                         DecodeOutputs(b, num_outputs.pos, ToInt(num_outputs.v), <<>>))

\* Tx.decode from the inputs loop on, num_inputs the count it settled on
TxDecodeInputs(b, version, segwit, num_inputs) ==
    IF ~CountOk(num_inputs.v) THEN RaiseTx
    ELSE LET inputs == DecodeInputs(b, num_inputs.pos, ToInt(num_inputs.v), <<>>)
         IN  TxDecodeOutputs(b, version, segwit, inputs,
                             decode_varintW(b, inputs.pos))

\* Tx.decode after the first varint n0: a count of 0 is the segwit marker, the
\* flag byte must be 01 and the count of inputs follows it
TxDecodeMarker(b, version, n0) ==
    IF n0.v # ToWide(0) THEN TxDecodeInputs(b, version, FALSE, n0)
    ELSE IF Read(b, n0.pos, 1) # <<1>> THEN RaiseTx     \* the assert on the flag
    ELSE TxDecodeInputs(b, version, TRUE,
                        decode_varintW(b, n0.pos + Len(Read(b, n0.pos, 1))))

\* Tx.decode(b)
Tx_decode(b) ==
    TxDecodeMarker(b, decode_intW(b, 0, 4).v,
                   decode_varintW(b, decode_intW(b, 0, 4).pos))

----------------------------------------------------------------------------
(* block.py.  A Block is [version, prev_block, merkle_root, timestamp,     *)
(* bits, nonce]; prev_block and merkle_root are hash256 digests big-endian, *)
(* bits and nonce four bytes each.                                         *)

\* the length of a block id or merkle root in bytes (32 in the program)
BlockIdBytes == 2

\* the length of a block header (80 in the program)
HeaderBytes == 16 + 2 * BlockIdBytes

\* Block.encode(): the block header
Block_encode(self) ==
    Join(<< encode_int(self.version, 4),
            Reverse(self.prev_block),
            Reverse(self.merkle_root),
            encode_int(self.timestamp, 4),
            self.bits,
            self.nonce >>)

\* Block.decode(b): the Block it returns (its integers wide) and where it left
\* the stream.  Each read starts where the one before it ended, and a read
\* at the end of the stream returns b"".
Block_decode(b) ==
    [block |-> [version |-> decode_intW(b, 0, 4).v,
                prev_block |-> Reverse(Read(b, 4, BlockIdBytes)),
                merkle_root |-> Reverse(Read(b, 4 + BlockIdBytes, BlockIdBytes)),
                timestamp |-> decode_intW(b, 4 + 2 * BlockIdBytes, 4).v,
                bits |-> Read(b, 8 + 2 * BlockIdBytes, 4),
                nonce |-> Read(b, 12 + 2 * BlockIdBytes, 4)],
     pos |-> IF Len(b) < HeaderBytes THEN Len(b) ELSE HeaderBytes]

\* the length of the coefficient of bits in bytes (3 in the program)
CoefBytes == 1

\* the coefficient of the target of lowest difficulty (0xffff in the program)
DiffCoef == 15

\* and the exponent of its bits (0x1d in the program)
DiffExp == 2

\* A Python number is the fraction num / den; isfloat tells a float from an
\* int.  Block.to_target(): coef * 256**(exp - 3), a float when exp < 3
\* because 256 to a negative power is a float.
Block_to_target(self) ==
    LET exp == self.bits[Len(self.bits)]
        coef == ToInt(decode_intW(SubSeq(self.bits, 1, Len(self.bits) - 1),
                                  0, CoefBytes).v)
    IN  IF exp >= CoefBytes
        THEN [num |-> coef * Pow256(exp - CoefBytes), den |-> 1, isfloat |-> FALSE]
        ELSE [num |-> coef, den |-> Pow256(CoefBytes - exp), isfloat |-> TRUE]

RECURSIVE FloorLog2Below(_, _, _)
\* the least k with n * 2^k >= d, for 0 < n < d
FloorLog2Below(n, d, k) ==
    IF n * Pow2(k) >= d THEN k ELSE FloorLog2Below(n, d, k + 1)

\* n / d for integers n, d > 0 as Python computes it: the float nearest to
\* the quotient (a mantissa of MantBits bits, ties to even), as a fraction
TrueDiv(n, d) ==
    LET e == IF n >= d THEN BitLen(n \div d) - 1 ELSE -FloorLog2Below(n, d, 1)
        sh == MantBits - 1 - e
        nn == IF sh >= 0 THEN n * Pow2(sh) ELSE n
        dd == IF sh >= 0 THEN d ELSE d * Pow2(-sh)
        q == nn \div dd
        rem == nn % dd
        m == IF 2 * rem > dd \/ (2 * rem = dd /\ q % 2 = 1) THEN q + 1 ELSE q
    IN  IF sh >= 0 THEN [num |-> m, den |-> Pow2(sh)]
        ELSE [num |-> m * Pow2(-sh), den |-> 1]

\* Block.difficulty(): int(lowest / self.to_target()); RaiseI stands for the
\* ZeroDivisionError
Block_difficulty(self) ==
    LET lowest == DiffCoef * Pow256(DiffExp - CoefBytes)
        target == Block_to_target(self)
        quot == TrueDiv(lowest * target.den, target.num)
    IN  IF target.num = 0 THEN RaiseI
        ELSE quot.num \div quot.den

----------------------------------------------------------------------------
(* utils/base58.py and PublicKey.get_address.  A str is the sequence of    *)
(* the code points of its characters.                                      *)

\* "123456789ABCDEFGHJKLMNPQRSTUVWXYZabcdefghijkmnopqrstuvwxyz"
BASE58_CHARS ==
    [k \in 1..9 |-> 48 + k]                   \* 1..9
    \o [k \in 1..8 |-> 64 + k]                \* A..H
    \o [k \in 1..5 |-> 73 + k]                \* J..N
    \o [k \in 1..11 |-> 79 + k]               \* P..Z
    \o [k \in 1..11 |-> 96 + k]               \* a..k
    \o [k \in 1..14 |-> 108 + k]              \* m..z

\* the length of a Base58Check checksum in bytes (4 in the program)
ChecksumBytes == 1

\* the length of an address before base58: version, hash160, checksum (25 in
\* the program)
AddrBytes == 1 + PkhBytes + ChecksumBytes

\* an index that takes the characters for consecutive code points from "1"
Base58Index_Offset(c) == c - 49

\* BASE58_CHARS.index(c); -1 stands for its ValueError
Base58Index(c) ==
    IF \E i \in 0..57 : BASE58_CHARS[i + 1] = c
    THEN CHOOSE i \in 0..57 : BASE58_CHARS[i + 1] = c
    ELSE -1

RECURSIVE Base58Digits(_)
\* the "while n > 0" loop of base58.encode: the digits of n, the highest first
Base58Digits(n) ==
    IF n <= 0 THEN <<>>
    ELSE Base58Digits(n \div 58) \o << BASE58_CHARS[(n % 58) + 1] >>

\* base58.encode(b)
base58_encode(b) ==
    LET n_lead_zeros == Len(b) - Len(lstrip0(b))
    IN  [k \in 1..n_lead_zeros |-> 49] \o Base58Digits(from_bytes_big(b))

\* base58.checksum(b)
base58_checksum(b) == SubSeq(hash256(b), 1, ChecksumBytes)

RECURSIVE Base58Value(_, _, _)
\* the "for c in s" loop of base58.decode from the character at index k on, n
\* the value so far; -1 stands for the ValueError of BASE58_CHARS.index
Base58Value(s, k, n) ==
    IF n < 0 \/ k > Len(s) THEN n
    ELSE IF Base58Index(s[k]) < 0 THEN -1
    ELSE Base58Value(s, k + 1, n * 58 + Base58Index(s[k]))

\* base58.decode(s, payload_only) with wif = False; RaiseB stands for the
\* ValueError, the OverflowError of to_bytes and the AssertionError
base58_decode(s, payload_only) ==
    LET v == Base58Value(s, 1, 0)
        n == to_bytes_big(v, AddrBytes)
    IN  IF v < 0 \/ n = RaiseB THEN RaiseB
        ELSE IF base58_checksum(SubSeq(n, 1, AddrBytes - ChecksumBytes))
                   # SubSeq(n, AddrBytes - ChecksumBytes + 1, AddrBytes)
        THEN RaiseB                                     \* "Checksum failed."
        ELSE IF payload_only THEN SubSeq(n, 2, AddrBytes - ChecksumBytes)
        ELSE n

\* PublicKey.get_address(compressed, testnet)
get_address(self, compressed, testnet) ==
    LET pubkey_hash == PublicKey_encode(self, compressed, TRUE)
        address == (IF testnet THEN <<111>> ELSE <<0>>) \o pubkey_hash
    IN  IF pubkey_hash = RaiseB THEN RaiseB
        ELSE IF Len(address \o base58_checksum(address)) # AddrBytes THEN RaiseB
        ELSE base58_encode(address \o base58_checksum(address))

----------------------------------------------------------------------------
(* merkle.py.  The values handled are bytes, str (hex) and list objects:   *)
(* [type, val], val the bytes, the code points or the items.               *)

PyBytes(b) == [type |-> "bytes", val |-> b]

PyStr(s) == [type |-> "str", val |-> s]

PyList(l) == [type |-> "list", val |-> l]

\* "0123456789abcdef"
HexChars == [k \in 1..10 |-> 47 + k] \o [k \in 1..6 |-> 96 + k]

\* bytes.hex()
bytes_hex(b) ==
    [k \in 1..(2 * Len(b)) |->
        HexChars[(IF k % 2 = 1 THEN b[(k + 1) \div 2] \div 16
                  ELSE b[k \div 2] % 16) + 1]]

\* the value of a hex digit
HexValue(c) ==
    IF c \in 48..57 THEN c - 48
    ELSE IF c \in 97..102 THEN c - 87
    ELSE c - 55

\* bytes.fromhex(s), s a string of hex digits of even length
bytes_fromhex(s) ==
    [k \in 1..(Len(s) \div 2) |-> 16 * HexValue(s[2 * k - 1]) + HexValue(s[2 * k])]

\* v[::-1] for a bytes, str or list v
PyReverse(v) == [type |-> v.type, val |-> Reverse(v.val)]

\* get_merkle_parent(hashes, as_hex), hashes the items of a list: one hash for
\* every i of range(0, len(hashes) - 1, 2)
get_merkle_parent(hashes, as_hex) ==
    [j \in 1..(Len(hashes) \div 2) |->
        LET h1 == hashes[2 * j - 1]
            h2 == hashes[2 * j]
            b1 == IF h1.type = "str" THEN bytes_fromhex(h1.val) ELSE h1.val
            b2 == IF h1.type = "str" THEN bytes_fromhex(h2.val) ELSE h2.val
            new_hash == hash256(b1 \o b2)
        IN  IF as_hex THEN PyStr(bytes_hex(new_hash)) ELSE PyBytes(new_hash)]

RECURSIVE MerkleLoop(_)
\* the while True loop of MerkleTree.construct over merkle_tree; on an empty
\* level the loop never ends, which is an empty tree here
MerkleLoop(merkle_tree) ==
    LET curr_level == merkle_tree[Len(merkle_tree)]
    IN  IF Len(curr_level.val) = 1 THEN merkle_tree
        ELSE IF Len(curr_level.val) = 0 THEN <<>>
        ELSE MerkleLoop(Append(merkle_tree,
                               PyList(get_merkle_parent(curr_level.val, TRUE))))

\* MerkleTree(tree): tree and root = tree[0][::-1]
MerkleTree_init(tree) == [tree |-> tree, root |-> PyReverse(tree[1])]

\* MerkleTree.construct(hashes), hashes a list of hex strings
MerkleTree_construct(hashes) ==
    LET big == [k \in 1..Len(hashes) |-> PyBytes(Reverse(bytes_fromhex(hashes[k].val)))]
        even == IF Len(big) % 2 # 0 THEN Append(big, big[Len(big)]) ELSE big
    IN  MerkleTree_init(Reverse(MerkleLoop(<< PyList(even) >>)))

----------------------------------------------------------------------------
(* The private-key generators: keys.py and the legacy utils.py             *)

\* random.randint(a, b): any integer of a..b, both ends included
randint(a, b) == a..b

\* random.randrange(a, b): any integer of a..b-1
randrange(a, b) == a..(b - 1)

\* keys.randsk()
randsk == randint(1, N)

\* the legacy utils.generate_private_key()
generate_private_key == randrange(1, N)

----------------------------------------------------------------------------
(* The signing and verification state machine.                             *)

\* tampering is explored for the private keys 1..MaxTamperKey
MaxTamperKey == 4

\* the messages signed are the one-byte strings <<0>> .. <<MaxMsg>>
MaxMsg == 5

\* randsk() is sampled at 1..MaxRandK, N - 1 and N
MaxRandK == 3

\* every private key: 1 <= e < N
Keys == 1..(N - 1)

Msgs == {<<b>> : b \in 0..MaxMsg}

AllMsgs == {<<b>> : b \in 0..255}

RandKs == {k \in randsk : k <= MaxRandK \/ k >= N - 1}

ZOf(m) == from_bytes_big(hash256(m))

NoOrig == [sig |-> NoSig, msg |-> <<>>, pub |-> RaisePt]

InitSig ==
    /\ sk \in Keys
    /\ msg \in Msgs
    /\ sig = NoSig
    /\ pub = PublicKey_from_private(sk)
    /\ verdict = "none"
    /\ tamper = "none"
    /\ prior = NoSig
    /\ mode = "none"
    /\ orig = NoOrig

InitSigIdle ==
    /\ sk = 1
    /\ msg = <<0>>
    /\ sig = NoSig
    /\ pub = G
    /\ verdict = "none"
    /\ tamper = "none"
    /\ prior = NoSig
    /\ mode = "none"
    /\ orig = NoOrig

InitKeys ==
    /\ key = NoneVal
    /\ gen = "none"

\* the spending transaction has 1..MaxInputs inputs
MaxInputs == 2

\* and 1..MaxOutputs outputs
MaxOutputs == 2

\* each of an amount in 0..MaxAmount
MaxAmount == 1

\* the private keys of the transaction scenario are 1..MaxTxKey
MaxTxKey == 2

TxKeys == 1..MaxTxKey

PkhOf(e) == PublicKey_encode(PublicKey_from_private(e), TRUE, TRUE)

\* the scripts an input other than input 0 carries
ScriptPool == { <<>>, << Push(<<7, 8>>), Op(172) >> }

\* the spent transaction: output 0 pays the owner, output 1 somebody else
UtxoOf(owner) ==
    [version |-> 1,
     inputs |-> << [prev_tx |-> <<170, 187>>, prev_idx |-> 0,
                    script_sig |-> <<>>, seq |-> 65535] >>,
     outputs |-> << [amount |-> MaxAmount, script_pubkey |-> p2pkh_script(PkhOf(owner))],
                    [amount |-> 1,
                     script_pubkey |-> p2pkh_script(PkhOf((owner % MaxTxKey) + 1))] >>,
     locktime |-> 0]

NoTx == [version |-> 0, inputs |-> <<>>, outputs |-> <<>>, locktime |-> 0]

InitTxIdle ==
    /\ theUtxo = NoTx
    /\ theTx = NoTx
    /\ txmsg = <<>>
    /\ signer = 0
    /\ changed = FALSE
    /\ pkarg = 0
    /\ txres = "none"
    /\ encidx = <<>>
    /\ encoded = <<>>

\* The transaction of tests/run_tests.py test_tx before it is signed: input 0
\* spends an output of theUtxo and carries that output's script_pubkey.  Its
\* outputs pay the payee of the second output of theUtxo.
InitTx ==
    /\ \E owner \in TxKeys : theUtxo = UtxoOf(owner)
    /\ \E nin \in 1..MaxInputs, nout \in 1..MaxOutputs, pidx \in 0..1, sp \in ScriptPool :
       \E amts \in [1..nout -> 0..MaxAmount] :
          theTx = [version |-> 1,
                   inputs |-> [j \in 1..nin |->
                       IF j = 1
                       THEN [prev_tx |-> <<17, 34>>, prev_idx |-> pidx,
                             script_sig |-> theUtxo.outputs[pidx + 1].script_pubkey,
                             seq |-> 2147483647]
                       ELSE [prev_tx |-> <<51, 68>>, prev_idx |-> 1,
                             script_sig |-> sp, seq |-> 258]],
                   outputs |-> [o \in 1..nout |->
                       [amount |-> amts[o],
                        script_pubkey |-> theUtxo.outputs[2].script_pubkey]],
                   locktime |-> 0]
    /\ txmsg = <<>>
    /\ signer = 0
    /\ changed = FALSE
    /\ pkarg = 0
    /\ txres = "none"
    /\ encidx = <<>>
    /\ encoded = <<>>

\* no codec operation is under way
InitCodecIdle ==
    /\ cop = "none"
    /\ cin = <<>>
    /\ cout = <<>>

Init == InitSig /\ InitKeys /\ InitTxIdle /\ InitCodecIdle

\* sig = Signature.from_private(sk, z, randk) with z = int(hash256(msg)); the
\* call may be made again.
Sign(randk, kr) ==
    /\ verdict = "none"
    /\ sig' = from_private(sk, ZOf(msg), randk, kr)
    /\ mode' = IF randk THEN "rand" ELSE "det"
    /\ prior' = IF mode = "det" THEN sig ELSE prior
    /\ UNCHANGED <<sk, msg, pub, verdict, tamper, orig, keyVars, txVars, codecVars>>

SignDefault == \E kr \in RandKs : Sign(FALSE, kr)

SignRandK == \E kr \in RandKs : Sign(TRUE, kr)

\* verdict = validate_signature(pub, msg, sig)
Verify ==
    /\ verdict = "none"
    /\ sig # NoSig
    /\ sig # RaiseSig
    /\ verdict' = validate_signature(pub, msg, sig)
    /\ UNCHANGED <<sk, msg, sig, pub, tamper, prior, mode, orig, keyVars, txVars, codecVars>>

\* One argument of an accepted validate_signature call is changed, and the
\* call is made again.
Tampered(kind, sg, m, p) ==
    /\ verdict = "true"
    /\ tamper = "none"
    /\ mode = "det"
    /\ sk <= MaxTamperKey
    /\ <<sg, m, p>> # <<sig, msg, pub>>
    /\ orig' = [sig |-> sig, msg |-> msg, pub |-> pub]
    /\ tamper' = kind
    /\ sig' = sg
    /\ msg' = m
    /\ pub' = p
    /\ verdict' = validate_signature(p, m, sg)
    /\ prior' = NoSig
    /\ UNCHANGED <<sk, mode, keyVars, txVars, codecVars>>

TamperR == \E r \in 1..(N - 1) : Tampered("r", [r |-> r, s |-> sig.s], msg, pub)

TamperS == \E s \in 1..(N - 1) : Tampered("s", [r |-> sig.r, s |-> s], msg, pub)

TamperZ == \E m \in AllMsgs : Tampered("z", sig, m, pub)

TamperP == \E e \in 1..(N - 1) : Tampered("P", sig, msg, PointMul(e, G))

Next ==
    \/ SignDefault
    \/ SignRandK
    \/ Verify
    \/ TamperR
    \/ TamperS
    \/ TamperZ
    \/ TamperP

Spec == Init /\ [][Next]_vars

----------------------------------------------------------------------------
(* The private-key generators' state machine.                              *)

\* key = randsk()
RandSk ==
    /\ \E k \in randsk : key' = k
    /\ gen' = "randsk"
    /\ UNCHANGED <<sigVars, txVars, codecVars>>

\* key = generate_private_key()
GeneratePrivateKey ==
    /\ \E k \in generate_private_key : key' = k
    /\ gen' = "generate_private_key"
    /\ UNCHANGED <<sigVars, txVars, codecVars>>

NextKeys == RandSk \/ GeneratePrivateKey

InitKeysSpec == InitSigIdle /\ InitKeys /\ InitTxIdle /\ InitCodecIdle

SpecKeys == InitKeysSpec /\ [][NextKeys]_vars

----------------------------------------------------------------------------
(* The transaction state machine: tests/run_tests.py test_tx, with the     *)
(* signer, the outputs and validate_tx's arguments left open.              *)

\* message = tx.encode(sig_idx=0)
MakeMessage ==
    /\ txres = "none" /\ encidx = <<>>
    /\ txmsg = <<>>
    /\ Tx_encode(theTx, 0) # RaiseB
    /\ txmsg' = Tx_encode(theTx, 0)
    /\ UNCHANGED <<theUtxo, theTx, signer, changed, pkarg, txres, encidx, encoded,
                   sigVars, keyVars, codecVars>>

\* sig = Signature.from_private(e, int(hash256(message))); the input's
\* script_sig becomes Script([sig.encode() + b"\x01", SEC(e*G)])
SignInput(e) ==
    /\ txres = "none" /\ encidx = <<>>
    /\ txmsg # <<>>
    /\ signer = 0
    /\ LET sg == from_private(e, ZOf(txmsg), FALSE, 1)
           der == Signature_encode(sg)
           sec == PublicKey_encode(PublicKey_from_private(e), TRUE, FALSE)
       IN  /\ sg # RaiseSig
           /\ der # RaiseB
           /\ theTx' = [theTx EXCEPT
                          !.inputs[1].script_sig = << Push(der \o <<1>>), Push(sec) >>]
    /\ signer' = e
    /\ UNCHANGED <<theUtxo, txmsg, changed, pkarg, txres, encidx, encoded,
                   sigVars, keyVars, codecVars>>

\* an output's amount is changed after the input was signed
ChangeOutputs(o, amt) ==
    /\ txres = "none" /\ encidx = <<>>
    /\ signer # 0
    /\ ~changed
    /\ o \in 1..Len(theTx.outputs)
    /\ theTx.outputs[o].amount # amt
    /\ theTx' = [theTx EXCEPT !.outputs[o].amount = amt]
    /\ changed' = TRUE
    /\ UNCHANGED <<theUtxo, txmsg, signer, pkarg, txres, encidx, encoded,
                   sigVars, keyVars, codecVars>>

\* validate_tx(utxo, tx, message, e*G)
Validate(e) ==
    /\ txres = "none" /\ encidx = <<>>
    /\ txres' = validate_tx(theUtxo, theTx, txmsg, PublicKey_from_private(e))
    /\ pkarg' = e
    /\ UNCHANGED <<theUtxo, theTx, txmsg, signer, changed, encidx, encoded,
                   sigVars, keyVars, codecVars>>

\* tx.encode(sig_idx=i), and tx.encode() for i = -1
EncodeTx(i) ==
    /\ txres = "none" /\ encidx = <<>>
    /\ encidx' = <<i>>
    /\ encoded' = Tx_encode(theTx, i)
    /\ UNCHANGED <<theUtxo, theTx, txmsg, signer, changed, pkarg, txres,
                   sigVars, keyVars, codecVars>>

NextTx ==
    \/ MakeMessage
    \/ \E e \in TxKeys : SignInput(e)
    \/ \E o \in 1..MaxOutputs, amt \in 0..MaxAmount : ChangeOutputs(o, amt)
    \/ \E e \in TxKeys : Validate(e)
    \/ \E i \in -1..MaxInputs : EncodeTx(i)

InitTxSpec == InitSigIdle /\ InitKeys /\ InitTx /\ InitCodecIdle

SpecTx == InitTxSpec /\ [][NextTx]_vars

----------------------------------------------------------------------------
(* The varint codec's state machine: utils/ints.py.                        *)

\* the low limb of the integers encoded: around 0xFD and the limb's ends
VarintLow == {0, 1, 252, 253, 254, 255, 256, 65535}

\* their higher limbs
VarintHigh == {0, 1, 65535}

\* the integers handed to encode_varint: 0 <= i < 2^80
VarintInputs ==
    {w \in [1..WideLimbs -> VarintLow \cup VarintHigh] :
        \A k \in 2..WideLimbs : w[k] \in VarintHigh}

InitVarint ==
    /\ cop = "none"
    /\ cin \in VarintInputs
    /\ cout = <<>>

InitVarintSpec == InitSigIdle /\ InitKeys /\ InitTxIdle /\ InitVarint

\* enc = encode_varint(cin); dec = decode_varint(BytesIO(enc))
VarintRoundTrip ==
    /\ cop = "none"
    /\ cop' = "varint"
    /\ LET enc == encode_varintW(cin)
       IN  cout' = [enc |-> enc,
                    dec |-> IF enc = RaiseB THEN [v |-> ToWide(0), pos |-> 0]
                            ELSE decode_varintW(enc, 0)]
    /\ UNCHANGED <<cin, sigVars, keyVars, txVars>>

NextVarint == VarintRoundTrip

SpecVarint == InitVarintSpec /\ [][NextVarint]_vars

----------------------------------------------------------------------------
(* The Script state machine: script/script.py.                             *)

\* the lengths of the data pushes: the ends of Script.encode's ranges
PushLens == {1, 2, 74, 75, 76, 255, 256, 520, 521}

\* the byte a push is filled with
PushFills == {0, 7, 255}

\* n bytes f
Blob(n, f) == [k \in 1..n |-> f]

\* a ScriptSig-like script: a data push, opcodes around it or not
PushScripts ==
    {pre \o << Push(Blob(n, f)) >> \o suf :
        n \in PushLens, f \in PushFills,
        pre \in {<<>>, << Op(0) >>, << Op(118) >>},
        suf \in {<<>>, << Op(172) >>}}

\* the ScriptPubKey-like scripts it is combined with
LockScripts == {<< Op(118), Op(169), Push(<<4>>), Op(136), Op(172) >>, << Op(172) >>}

InitScript ==
    /\ cop = "none"
    /\ cin \in [a : PushScripts, b : LockScripts]
    /\ cout = <<>>

InitScriptSpec == InitSigIdle /\ InitKeys /\ InitTxIdle /\ InitScript

\* Script(cin.a).encode()
ScriptEncode ==
    /\ cop = "none"
    /\ cop' = "encode"
    /\ cout' = Script_encode(cin.a)
    /\ UNCHANGED <<cin, sigVars, keyVars, txVars>>

\* Script(cin.a) + Script(cin.b)
ScriptAdd ==
    /\ cop = "none"
    /\ cop' = "add"
    /\ cout' = Script_add(cin.a, cin.b)
    /\ UNCHANGED <<cin, sigVars, keyVars, txVars>>

NextScript == ScriptEncode \/ ScriptAdd

SpecScript == InitScriptSpec /\ [][NextScript]_vars

----------------------------------------------------------------------------
(* The transaction codec's state machine: Tx.encode and Tx.decode.         *)

\* the scripts of the transactions serialized: P2PKH, pushes at the ends of
\* Script.encode's ranges, the empty script
CodecScripts ==
    { <<>>,
      << Op(118), Op(169), Push(<<4>>), Op(136), Op(172) >>,
      << Push(Blob(1, 7)) >>,
      << Push(Blob(75, 7)) >>,
      << Push(Blob(76, 7)), Op(172) >>,
      << Push(Blob(256, 7)) >>,
      << Op(0), Push(Blob(520, 7)) >> }

\* the witness stack every input of a segwit transaction carries
CodecStacks == { <<>>, << <<>> >>, << <<5, 6>>, <<>> >> }

\* a transaction of nin inputs and nout outputs
CodecTx(nin, nout, ss, spk, seq, amt) ==
    [version |-> 1,
     inputs |-> [j \in 1..nin |->
                    [prev_tx |-> <<17, 34>>, prev_idx |-> j - 1,
                     script_sig |-> IF j = 1 THEN ss ELSE <<>>, seq |-> seq]],
     outputs |-> [o \in 1..nout |-> [amount |-> amt + o - 1, script_pubkey |-> spk]],
     locktime |-> 65536]

InitTxCodec ==
    /\ cop = "none"
    /\ \E nin \in 1..MaxInputs, nout \in 0..MaxOutputs, ss \in CodecScripts,
          own \in BOOLEAN, seq \in {0, 2147483647}, amt \in {0, 65535},
          stack \in CodecStacks :
            cin = [tx |-> CodecTx(nin, nout, ss, IF own THEN ss ELSE << Op(172) >>,
                                  seq, amt),
                   stack |-> stack]
    /\ cout = <<>>

InitTxCodecSpec == InitSigIdle /\ InitKeys /\ InitTxIdle /\ InitTxCodec

\* the items of a witness stack: varint of the length and the bytes of each
WitnessBytes(stack) ==
    Join(<< encode_varint(Len(stack)) >>
         \o [k \in 1..Len(stack) |-> encode_varint(Len(stack[k])) \o stack[k]])

\* the segwit serialization of tx with the witness stack of every input:
\* version, marker 00, flag 01, inputs, outputs, witness, locktime
SegwitBytes(tx, stack) ==
    Join(<< encode_int(tx.version, 4),
            <<0, 1>>,
            encode_varint(Len(tx.inputs)),
            Tx_encode_inputs(tx, -1),
            encode_varint(Len(tx.outputs)),
            Tx_encode_outputs(tx),
            Join([j \in 1..Len(tx.inputs) |-> WitnessBytes(stack)]),
            encode_int(tx.locktime, 4) >>)

\* Tx.decode(cin.tx.encode())
TxRoundTrip ==
    /\ cop = "none"
    /\ cop' = "roundtrip"
    /\ cout' = IF Tx_encode(cin.tx, -1) = RaiseB THEN RaiseTx
               ELSE Tx_decode(Tx_encode(cin.tx, -1))
    /\ UNCHANGED <<cin, sigVars, keyVars, txVars>>

\* Tx.decode of the segwit serialization of cin.tx and its witness
TxDecodeSegwit ==
    /\ cop = "none"
    /\ SegwitBytes(cin.tx, cin.stack) # RaiseB
    /\ cop' = "segwit"
    /\ cout' = Tx_decode(SegwitBytes(cin.tx, cin.stack))
    /\ UNCHANGED <<cin, sigVars, keyVars, txVars>>

NextTxCodec == TxRoundTrip \/ TxDecodeSegwit

SpecTxCodec == InitTxCodecSpec /\ [][NextTxCodec]_vars

----------------------------------------------------------------------------
(* The DER codec's state machine: Signature.encode and Signature.decode.   *)

\* the values of r: the ends of 1..N-1 and both sides of the 0x80 padding rule
DerValues == {1, 2, 127, 128, N - 1}

InitDer ==
    /\ cop = "none"
    /\ \E r \in DerValues, s \in 1..(N - 1) : cin = [r |-> r, s |-> s]
    /\ cout = <<>>

InitDerSpec == InitSigIdle /\ InitKeys /\ InitTxIdle /\ InitDer

\* Signature.decode(Signature(r, s).encode())
DerRoundTrip ==
    /\ cop = "none"
    /\ cop' = "der"
    /\ cout' = Signature_decode(Push(Signature_encode(cin)))
    /\ UNCHANGED <<cin, sigVars, keyVars, txVars>>

\* Signature.decode(Signature(r, s).encode() + b"\x01"): the script command
\* validate_tx hands to Signature.decode, the SIGHASH_ALL byte appended
DerDecodeSighash ==
    /\ cop = "none"
    /\ cop' = "der_sighash"
    /\ cout' = Signature_decode(Push(Signature_encode(cin) \o <<1>>))
    /\ UNCHANGED <<cin, sigVars, keyVars, txVars>>

\* the defects a signature's encoding is given
DerDefects == {"first", "length", "rmarker", "rlength", "smarker", "slength", "trailing"}

\* the encoding enc with one defect: a wrong first byte, a wrong body length,
\* a wrong marker or length of r or of s, or a byte after the encoded s
DerDefect(kind, enc) ==
    LET rlength == enc[4]
    IN  IF kind = "first" THEN [enc EXCEPT ![1] = 49]
        ELSE IF kind = "length" THEN [enc EXCEPT ![2] = @ + 1]
        ELSE IF kind = "rmarker" THEN [enc EXCEPT ![3] = 3]
        ELSE IF kind = "rlength" THEN [enc EXCEPT ![4] = @ + 1]
        ELSE IF kind = "smarker" THEN [enc EXCEPT ![5 + rlength] = 3]
        ELSE IF kind = "slength" THEN [enc EXCEPT ![6 + rlength] = @ + 1]
        ELSE enc \o <<255>>

\* Signature.decode of an encoding with a defect, alone or with the
\* SIGHASH_ALL byte appended
DerDecodeMalformed ==
    /\ cop = "none"
    /\ cop' = "der_malformed"
    /\ \E kind \in DerDefects, sighash \in BOOLEAN :
          cout' = [defect |-> kind, sighash |-> sighash,
                   sig |-> Signature_decode(Push(DerDefect(kind, Signature_encode(cin))
                                                 \o (IF sighash THEN <<1>> ELSE <<>>)))]
    /\ UNCHANGED <<cin, sigVars, keyVars, txVars>>

NextDer == DerRoundTrip \/ DerDecodeSighash \/ DerDecodeMalformed

SpecDer == InitDerSpec /\ [][NextDer]_vars

----------------------------------------------------------------------------
(* The SEC codec's state machine: PublicKey.encode and PublicKey.decode.   *)

\* the affine points of the curve: the public keys e * G of the keys 1..N-1
SecPoints == { PublicKey_from_private(e) : e \in Keys }

\* the y coordinates of the uncompressed encodings decoded
SecYs == {0, 1, Gy, P - Gy}

\* the byte strings handed to PublicKey.decode: a prefix byte, then one
\* coordinate (compressed) or two (uncompressed) of FieldBytes bytes each
SecStrings ==
    { <<pre, x>> : pre \in {2, 3, 5}, x \in 0..255 }
    \cup { <<4, x, y>> : x \in 0..255, y \in SecYs }

InitSec ==
    /\ cop = "none"
    /\ \/ \E pt \in SecPoints, compressed \in BOOLEAN :
            cin = [pt |-> pt, compressed |-> compressed, raw |-> <<>>]
       \/ \E raw \in SecStrings :
            cin = [pt |-> INF, compressed |-> FALSE, raw |-> raw]
    /\ cout = <<>>

InitSecSpec == InitSigIdle /\ InitKeys /\ InitTxIdle /\ InitSec

\* PublicKey.decode(pt.encode(compressed))
SecRoundTrip ==
    /\ cop = "none"
    /\ cin.raw = <<>>
    /\ cop' = "sec"
    /\ cout' = PublicKey_decode(Push(PublicKey_encode(cin.pt, cin.compressed, FALSE)))
    /\ UNCHANGED <<cin, sigVars, keyVars, txVars>>

\* PublicKey.decode(raw)
SecDecode ==
    /\ cop = "none"
    /\ cin.raw # <<>>
    /\ cop' = "sec_decode"
    /\ cout' = PublicKey_decode(Push(cin.raw))
    /\ UNCHANGED <<cin, sigVars, keyVars, txVars>>

NextSec == SecRoundTrip \/ SecDecode

SpecSec == InitSecSpec /\ [][NextSec]_vars

----------------------------------------------------------------------------
(* The stream decoders' state machine: decode_int, decode_varint,          *)
(* Block.decode, Tx.decode and Script.decode on whole and truncated input. *)

\* the first n bytes of b
Prefix(b, n) == SubSeq(b, 1, n)

\* the bytes decode_int and decode_varint are handed
IntBytes == <<253, 2, 254, 4, 255, 6, 7, 8, 9>>

\* the block whose header is decoded
ShortBlock ==
    [version |-> 1, prev_block |-> <<0, 9>>, merkle_root |-> <<59, 163>>,
     timestamp |-> 1296688602, bits |-> <<255, 255, 0, 29>>,
     nonce |-> <<26, 164, 174, 24>>]

\* the script decoded: pay-to-pubkey-hash
ShortScript == p2pkh_script(<<4>>)

\* the transaction decoded: one input, one output
ShortTx == CodecTx(1, 1, << Push(<<48, 6>>), Push(<<2, 3>>) >>, ShortScript, 0, 1)

\* the streams handed to the decoders: every prefix of a whole input; need
\* is the number of bytes the decoder reads from the whole input
ShortInputs ==
    { [kind |-> "int", n |-> n, need |-> n, b |-> Prefix(SubSeq(IntBytes, 6, 9), k)] :
        n \in {1, 2, 4}, k \in 0..4 }
    \cup { [kind |-> "varint", n |-> 0, need |-> 1 + 2 * i,
            b |-> Prefix(SubSeq(IntBytes, i, 9), k)] : i \in {1, 3}, k \in 0..5 }
    \cup { [kind |-> "varint", n |-> 0, need |-> 9,
            b |-> Prefix(SubSeq(IntBytes, 5, 9) \o <<0, 0, 0, 0>>, k)] : k \in 0..9 }
    \cup { [kind |-> "block", n |-> 0, need |-> HeaderBytes,
            b |-> Prefix(Block_encode(ShortBlock), k)] : k \in 0..HeaderBytes }
    \cup { [kind |-> "script", n |-> 0, need |-> Len(Script_encode(ShortScript)),
            b |-> Prefix(Script_encode(ShortScript), k)] :
                k \in 0..Len(Script_encode(ShortScript)) }
    \cup { [kind |-> "tx", n |-> 0, need |-> Len(Tx_encode(ShortTx, -1)),
            b |-> Prefix(Tx_encode(ShortTx, -1), k)] :
                k \in 0..Len(Tx_encode(ShortTx, -1)) }

InitShort ==
    /\ cop = "none"
    /\ cin \in ShortInputs
    /\ cout = <<>>

InitShortSpec == InitSigIdle /\ InitKeys /\ InitTxIdle /\ InitShort

\* decode_int(BytesIO(b), n)
DecodeInt ==
    /\ cop = "none"
    /\ cin.kind = "int"
    /\ cop' = "decoded"
    /\ cout' = decode_intW(cin.b, 0, cin.n)
    /\ UNCHANGED <<cin, sigVars, keyVars, txVars>>

\* decode_varint(BytesIO(b))
DecodeVarint ==
    /\ cop = "none"
    /\ cin.kind = "varint"
    /\ cop' = "decoded"
    /\ cout' = decode_varintW(cin.b, 0)
    /\ UNCHANGED <<cin, sigVars, keyVars, txVars>>

\* Block.decode(b)
BlockDecode ==
    /\ cop = "none"
    /\ cin.kind = "block"
    /\ cop' = "decoded"
    /\ cout' = Block_decode(cin.b)
    /\ UNCHANGED <<cin, sigVars, keyVars, txVars>>

\* Script.decode(b)
ScriptDecode ==
    /\ cop = "none"
    /\ cin.kind = "script"
    /\ cop' = "decoded"
    /\ cout' = Script_decode(cin.b, 0)
    /\ UNCHANGED <<cin, sigVars, keyVars, txVars>>

\* Tx.decode(b)
TxDecode ==
    /\ cop = "none"
    /\ cin.kind = "tx"
    /\ cop' = "decoded"
    /\ cout' = Tx_decode(cin.b)
    /\ UNCHANGED <<cin, sigVars, keyVars, txVars>>

NextShort == DecodeInt \/ DecodeVarint \/ BlockDecode \/ ScriptDecode \/ TxDecode

SpecShort == InitShortSpec /\ [][NextShort]_vars

----------------------------------------------------------------------------
(* The Base58Check state machine: base58.encode, base58.decode and         *)
(* PublicKey.get_address.                                                  *)

\* the version bytes: mainnet and testnet P2PKH, mainnet P2SH
Base58Versions == {0, 111, 5}

InitBase58 ==
    /\ cop = "none"
    /\ \/ \E v \in Base58Versions, h \in 0..255, payload_only \in BOOLEAN :
            cin = [kind |-> "bytes", version |-> <<v>>, payload |-> <<h>>,
                   payload_only |-> payload_only]
       \/ \E e \in Keys, compressed \in BOOLEAN, testnet \in BOOLEAN :
            cin = [kind |-> "key", e |-> e, compressed |-> compressed,
                   testnet |-> testnet]
    /\ cout = <<>>

InitBase58Spec == InitSigIdle /\ InitKeys /\ InitTxIdle /\ InitBase58

\* b = version + payload + checksum(version + payload)
Base58Check(version, payload) ==
    version \o payload \o base58_checksum(version \o payload)

\* base58.decode(base58.encode(b), payload_only)
Base58RoundTrip ==
    /\ cop = "none"
    /\ cin.kind = "bytes"
    /\ cop' = "base58"
    /\ LET enc == base58_encode(Base58Check(cin.version, cin.payload))
       IN  cout' = [enc |-> enc, dec |-> base58_decode(enc, cin.payload_only)]
    /\ UNCHANGED <<cin, sigVars, keyVars, txVars>>

\* base58.decode(PublicKey.from_private(e).get_address(compressed, testnet))
AddressDecode ==
    /\ cop = "none"
    /\ cin.kind = "key"
    /\ cop' = "address"
    /\ LET enc == get_address(PublicKey_from_private(cin.e), cin.compressed,
                              cin.testnet)
       IN  cout' = [enc |-> enc,
                    dec |-> IF enc = RaiseB THEN RaiseB ELSE base58_decode(enc, TRUE)]
    /\ UNCHANGED <<cin, sigVars, keyVars, txVars>>

NextBase58 == Base58RoundTrip \/ AddressDecode

SpecBase58 == InitBase58Spec /\ [][NextBase58]_vars

----------------------------------------------------------------------------
(* The proof-of-work state machine: Block.to_target and Block.difficulty.  *)

\* the coefficients of bits: the integers a float holds exactly
CoefValues == 0..(Pow2(MantBits) - 1)

\* the exponents of bits
ExpValues == 0..(DiffExp + 1)

InitPow ==
    /\ cop = "none"
    /\ \E coef \in CoefValues, exp \in ExpValues :
          cin = [version |-> 1, prev_block |-> <<0, 9>>, merkle_root |-> <<59, 163>>,
                 timestamp |-> 1296688602,
                 bits |-> encode_int(coef, CoefBytes) \o <<exp>>,
                 nonce |-> <<26, 164, 174, 24>>]
    /\ cout = <<>>

InitPowSpec == InitSigIdle /\ InitKeys /\ InitTxIdle /\ InitPow

\* cin.to_target()
ToTarget ==
    /\ cop = "none"
    /\ cop' = "target"
    /\ cout' = Block_to_target(cin)
    /\ UNCHANGED <<cin, sigVars, keyVars, txVars>>

\* cin.difficulty()
Difficulty ==
    /\ cop = "none"
    /\ cop' = "difficulty"
    /\ cout' = Block_difficulty(cin)
    /\ UNCHANGED <<cin, sigVars, keyVars, txVars>>

NextPow == ToTarget \/ Difficulty

SpecPow == InitPowSpec /\ [][NextPow]_vars

----------------------------------------------------------------------------
(* The Merkle tree's state machine: get_merkle_parent and                  *)
(* MerkleTree.construct.                                                   *)

\* trees are built over 1..MaxLeaves transaction ids
MaxLeaves == 6

\* the transaction ids hashed, as hex strings
LeafIds == { PyStr(bytes_hex(<<170, 1>>)), PyStr(bytes_hex(<<187, 2>>)) }

RECURSIVE LeafLists(_)
\* the lists of n transaction ids
LeafLists(n) ==
    IF n = 0 THEN { <<>> }
    ELSE { Append(l, h) : l \in LeafLists(n - 1), h \in LeafIds }

InitMerkle ==
    /\ cop = "none"
    /\ \E n \in 1..MaxLeaves : cin \in LeafLists(n)
    /\ cout = <<>>

InitMerkleSpec == InitSigIdle /\ InitKeys /\ InitTxIdle /\ InitMerkle

\* MerkleTree.construct(cin)
MerkleConstruct ==
    /\ cop = "none"
    /\ cop' = "merkle"
    /\ cout' = MerkleTree_construct(cin)
    /\ UNCHANGED <<cin, sigVars, keyVars, txVars>>

\* get_merkle_parent(cin)
MerkleParent ==
    /\ cop = "none"
    /\ cop' = "parent"
    /\ cout' = get_merkle_parent(cin, TRUE)
    /\ UNCHANGED <<cin, sigVars, keyVars, txVars>>

NextMerkle == MerkleConstruct \/ MerkleParent

SpecMerkle == InitMerkleSpec /\ [][NextMerkle]_vars

----------------------------------------------------------------------------
(* Scalar multiplication's state machine: k * P by Point.__rmul__ next to  *)
(* P + P + ... + P by Point.__add__, for k = 0, 1, 2, ...                  *)

\* the scalars multiplied are 0..MaxScalar
MaxScalar == 460

\* the points multiplied
MulPoints == { G, PointMul(5, G) }

InitMul ==
    /\ cop = "none"
    /\ \E pt \in MulPoints : cin = [pt |-> pt, k |-> 0, sum |-> InfOn]
    /\ cout = <<>>

InitMulSpec == InitSigIdle /\ InitKeys /\ InitTxIdle /\ InitMul

\* cin.k * cin.pt
ScalarMul ==
    /\ cop \in {"none", "add"}
    /\ cop' = "mul"
    /\ cout' = PointMul(cin.k, cin.pt)
    /\ UNCHANGED <<cin, sigVars, keyVars, txVars>>

\* one more term of pt + pt + ... + pt
AddOnce ==
    /\ cop = "mul"
    /\ cin.k < MaxScalar
    /\ cop' = "add"
    /\ cin' = [cin EXCEPT !.k = @ + 1,
                          !.sum = IF cin.k = 0 THEN cin.pt ELSE PointAdd(@, cin.pt)]
    /\ UNCHANGED <<cout, sigVars, keyVars, txVars>>

NextMul == ScalarMul \/ AddOnce

SpecMul == InitMulSpec /\ [][NextMul]_vars

----------------------------------------------------------------------------
(* Modular division's state machine: modulardiv(a, b, p) and the legacy    *)
(* Element(a, p) / Element(b, p).                                          *)

\* dividends are -MaxDividend..MaxDividend, divisors -MaxDivisor..MaxDivisor
MaxDividend == 12

MaxDivisor == 8

\* the moduli
DivPrimes == {2, 3, 5, 7, P}

InitDiv ==
    /\ cop = "none"
    /\ \E p \in DivPrimes, a \in (-MaxDividend)..MaxDividend,
          b \in (-MaxDivisor)..MaxDivisor :
          /\ b % p # 0
          /\ cin = [a |-> a, b |-> b, p |-> p]
    /\ cout = <<>>

InitDivSpec == InitSigIdle /\ InitKeys /\ InitTxIdle /\ InitDiv

\* modulardiv(a, b, p)
ModularDiv ==
    /\ cop = "none"
    /\ cop' = "div"
    /\ cout' = modulardiv(cin.a, cin.b, cin.p)
    /\ UNCHANGED <<cin, sigVars, keyVars, txVars>>

\* Element(a, p) / Element(b, p), for a and b that are elements
ElementDiv ==
    /\ cop = "none"
    /\ cin.a \in 0..(cin.p - 1)
    /\ cin.b \in 0..(cin.p - 1)
    /\ cop' = "truediv"
    /\ cout' = Element_truediv(Element(cin.a, cin.p), Element(cin.b, cin.p))
    /\ UNCHANGED <<cin, sigVars, keyVars, txVars>>

NextDiv == ModularDiv \/ ElementDiv

SpecDiv == InitDivSpec /\ [][NextDiv]_vars

----------------------------------------------------------------------------
(* The nonce generator's state machine: rfc6979(sk, z) with its            *)
(* intermediate values.                                                    *)

\* the private keys the nonce is derived for
NonceKeys == {1, 2, N - 1}

InitNonce ==
    /\ cop = "none"
    /\ \E e \in NonceKeys, z \in 0..(2 * N - 1) : cin = [sk |-> e, z |-> z]
    /\ cout = <<>>

InitNonceSpec == InitSigIdle /\ InitKeys /\ InitTxIdle /\ InitNonce

\* rfc6979(sk, z): the values it computes on the way and the nonce returned
Rfc6979 ==
    /\ cop = "none"
    /\ cop' = "nonce"
    /\ cout' = [st |-> rfc6979Rounds(cin.sk, cin.z), nonce |-> rfc6979(cin.sk, cin.z)]
    /\ UNCHANGED <<cin, sigVars, keyVars, txVars>>

NextNonce == Rfc6979

SpecNonce == InitNonceSpec /\ [][NextNonce]_vars

----------------------------------------------------------------------------
(* Point addition's state machine: P + Q for points of the curve E2.       *)

\* the points added have x in 0..MaxAddX, or x = P - 1
MaxAddX == 8

\* the points of E2 added
AddPoints ==
    { [curve |-> 2, x |-> x, y |-> y] : 
        <<x, y>> \in { xy \in ((0..MaxAddX) \cup {P - 1}) \X (0..(P - 1)) :
                         (xy[2] * xy[2]) % P
                           = (xy[1] * xy[1] * xy[1] + E2.a * xy[1] + E2.b) % P } }

InitAdd ==
    /\ cop = "none"
    /\ cin \in [p : AddPoints, q : AddPoints]
    /\ cout = <<>>

InitAddSpec == InitSigIdle /\ InitKeys /\ InitTxIdle /\ InitAdd

\* cin.p + cin.q
PointAddition ==
    /\ cop = "none"
    /\ cop' = "padd"
    /\ cout' = PointAdd(cin.p, cin.q)
    /\ UNCHANGED <<cin, sigVars, keyVars, txVars>>

NextAdd == PointAddition

SpecAdd == InitAddSpec /\ [][NextAdd]_vars

----------------------------------------------------------------------------
(* Claims about signing and verification.                                  *)

IsSig(sg) == sg # NoSig /\ sg # RaiseSig

\* C1: for every private key e in [1, n) and every message, the signature
\* from_private(e, int(hash256(message))) returns with the deterministic k is
\* accepted by validate_signature(e*G, message, sig).
C1_SignedIsAccepted ==
    (mode = "det" /\ tamper = "none" /\ verdict # "none") => verdict = "true"

\* C5: every signature from_private(e, z) returns is low-s: s <= n/2.
C5_LowS ==
    (mode = "det" /\ IsSig(sig) /\ tamper = "none") => 2 * sig.s <= N

\* C6: every signature from_private(e, z) returns has 1 <= r < n and
\* 1 <= s < n; one with r = 0 or s = 0 is never returned.
C6_RSInRange ==
    (mode = "det" /\ IsSig(sig) /\ tamper = "none") =>
        /\ 1 <= sig.r /\ sig.r < N
        /\ 1 <= sig.s /\ sig.s < N

\* C7: signing is deterministic: a call from_private(e, z) with the default
\* randk=False returns the (r, s) the previous such call with the same (e, z)
\* returned, whatever the random source would have drawn.
C7_Deterministic ==
    (mode = "det" /\ prior # NoSig /\ tamper = "none") => sig = prior

\* C7 witness: a second default-mode call has returned a signature.
C7_Witness ==
    mode = "det" /\ IsSig(prior) /\ IsSig(sig) /\ tamper = "none"

\* C8 as stated: once validate_signature accepted (r, s) for P and z, changing
\* exactly one of r, s, z or P to another value of its domain makes it return
\* false.
C8_AnyTamperRejected ==
    tamper # "none" => verdict = "false"

\* C8 amended: for an accepted signature with 1 <= r, s < n on P = e*G and z,
\* changing only s to another s' in [1, n) is rejected except for s' = n - s,
\* which is accepted; changing only z is rejected unless z' = z or
\* z' = -z - 2re (mod n); changing only P to another e'*G is rejected unless
\* e' = -e - 2z/r (mod n); changing only r to r' in [1, n) is rejected unless
\* r' is the x-coordinate of ((z + r'e)/s)*G.
C8_TamperRejectedButTwins ==
    (tamper # "none" /\ orig.sig.r < N) =>
        LET r == orig.sig.r
            s == orig.sig.s
            z == ZOf(orig.msg)
            accepted ==
                CASE tamper = "s" -> sig.s = N - s
                  [] tamper = "z" ->
                        \/ (ZOf(msg) - z) % N = 0
                        \/ (ZOf(msg) + z + 2 * r * sk) % N = 0
                  [] tamper = "P" ->
                        pub = PointMul((-sk - 2 * modulardiv(z, r, N)) % N, G)
                  [] tamper = "r" ->
                        PointMul(modulardiv(ZOf(msg) + sig.r * sk, s, N), G).x = sig.r
        IN  verdict = (IF accepted THEN "true" ELSE "false")

\* C8 witness: s was replaced by n - s, and the signature is still accepted.
C8_Witness ==
    /\ tamper = "s"
    /\ orig.sig.r < N
    /\ sig.s = N - orig.sig.s
    /\ verdict = "true"

----------------------------------------------------------------------------
(* Claims about the private-key generators.                                *)

\* C9: randsk() and generate_private_key() only return an integer e with
\* 1 <= e < n; n itself is never returned.
C9_KeyBelowN ==
    gen # "none" => (1 <= key /\ key < N)

----------------------------------------------------------------------------
(* Claims about validate_tx.                                               *)

\* the output of theUtxo input 0 of theTx refers to
SpentOutput == theUtxo.outputs[theTx.inputs[1].prev_idx + 1]

\* C2: validate_tx returns true only if hash160 of the public key in input
\* 0's script_sig (its second push) is the hash pushed in the spent output's
\* script_pubkey.
C2_ScriptSigKeyIsPayee ==
    txres = "true" =>
        /\ Len(theTx.inputs[1].script_sig) >= 2
        /\ ~theTx.inputs[1].script_sig[2].isop
        /\ hash160(theTx.inputs[1].script_sig[2].data) = SpentOutput.script_pubkey[3].data

\* the SIGHASH_ALL pre-image of theTx for input 0
SighashPreimage ==
    Tx_encode([theTx EXCEPT !.inputs[1].script_sig = SpentOutput.script_pubkey], 0)

\* C3: validate_tx returns true only if the signature in input 0's script_sig
\* verifies against hash256 of the SIGHASH_ALL pre-image of the transaction
\* being validated.
C3_SignatureCoversTx ==
    txres = "true" =>
        validate_signature(PublicKey_decode(theTx.inputs[1].script_sig[2]),
                           SighashPreimage,
                           Signature_decode(theTx.inputs[1].script_sig[1])) = "true"

\* C4: validate_tx returns false whenever the outputs of tx sum to more than
\* the amount of the output input 0 refers to, whatever the script_sig, the
\* message and the public key are.
C4_NoNewCoins ==
    (txres # "none" /\ SumAmounts(theTx.outputs) > SpentOutput.amount) =>
        txres = "false"

\* C4 witness: a transaction signed by the owner of the spent output, whose
\* outputs sum to more than that output, was validated with the owner's key.
C4_Witness ==
    /\ txres = "false"
    /\ signer # 0
    /\ pkarg = signer
    /\ ~changed
    /\ PkhOf(signer) = SpentOutput.script_pubkey[3].data
    /\ SumAmounts(theTx.outputs) > SpentOutput.amount

----------------------------------------------------------------------------
(* Claims about Tx.encode.                                                 *)

RECURSIVE Cat(_)
\* the concatenation of a sequence of byte strings
Cat(parts) == IF Len(parts) = 0 THEN <<>> ELSE Head(parts) \o Cat(Tail(parts))

\* the serialization C10 describes of transaction t for sig_idx = i
CanonicalTx(t, i) ==
    encode_int(t.version, 4)
    \o encode_varint(Len(t.inputs))
    \o Cat([j \in 1..Len(t.inputs) |->
              Reverse(t.inputs[j].prev_tx)
              \o encode_int(t.inputs[j].prev_idx, 4)
              \o (IF i >= 0 /\ j - 1 # i THEN <<0>>
                  ELSE Script_encode(t.inputs[j].script_sig))
              \o encode_int(t.inputs[j].seq, 4)])
    \o encode_varint(Len(t.outputs))
    \o Cat([o \in 1..Len(t.outputs) |->
              encode_int(t.outputs[o].amount, 8)
              \o Script_encode(t.outputs[o].script_pubkey)])
    \o encode_int(t.locktime, 4)
    \o (IF i >= 0 THEN <<1, 0, 0, 0>> ELSE <<>>)

\* C10: tx.encode(sig_idx=i) with i >= 0 is the serialization in which every
\* input but i carries the empty script 0x00 and input i its own script,
\* followed by the sighash type 01 00 00 00; tx.encode() serializes every
\* script_sig as stored with no sighash type; the call leaves tx as it was.
C10_EncodeLayout ==
    [][(encidx = <<>> /\ encidx' # <<>>) =>
          /\ theTx' = theTx
          /\ encoded' = CanonicalTx(theTx, encidx'[1])]_vars

\* C10 witness: a transaction of two inputs, input 0 signed and input 1 with a
\* script of its own, was encoded for signing input 1.
C10_Witness ==
    /\ encidx = <<1>>
    /\ Len(theTx.inputs) = 2
    /\ signer # 0
    /\ theTx.inputs[2].script_sig # <<>>
    /\ encoded # RaiseB
    /\ Len(encoded) > 0

----------------------------------------------------------------------------
(* Claims about the integer codec.                                         *)

\* byte j (from 1, lowest first) of the wide integer w
ByteOf(w, j) == IF j % 2 = 1 THEN w[(j + 1) \div 2] % 256 ELSE w[j \div 2] \div 256

\* the n low bytes of w, little-endian
LowBytes(w, n) == [j \in 1..n |-> ByteOf(w, j)]

----------------------------------------------------------------------------
(* Claims about Script.                                                    *)

\* what C13 has a push of the bytes d serialized as
PushForm(d) ==
    IF Len(d) <= 75 THEN <<Len(d)>> \o d
    ELSE IF Len(d) <= 255 THEN <<76, Len(d)>> \o d
    ELSE <<77, Len(d) % 256, Len(d) \div 256>> \o d

\* the command stream of a script
CommandStream(cmds) ==
    Cat([k \in 1..Len(cmds) |->
           IF cmds[k].isop THEN <<cmds[k].op>> ELSE PushForm(cmds[k].data)])

\* the varint of a length below 2^16
LengthPrefix(n) == IF n < 253 THEN <<n>> ELSE <<253, n % 256, n \div 256>>

\* C13: Script.encode serializes a push of n bytes as the byte n and the
\* payload for 1 <= n <= 75, as 4C, n, payload for 76 <= n <= 255, as 4D, n
\* in two little-endian bytes, payload for 256 <= n <= 520, and fails for
\* n > 520; the stream is prefixed by the varint of its length.
C13_PushEncoding ==
    cop = "encode" =>
        IF \E k \in 1..Len(cin.a) : ~cin.a[k].isop /\ Len(cin.a[k].data) > 520
        THEN cout = RaiseB
        ELSE cout = LengthPrefix(Len(CommandStream(cin.a))) \o CommandStream(cin.a)

\* C14: script_sig + script_pubkey has the ScriptSig's commands followed by
\* the ScriptPubKey's commands, each in its order.
C14_AddKeepsOrder ==
    cop = "add" => cout = cin.a \o cin.b

----------------------------------------------------------------------------
(* Claims about Tx.decode.                                                 *)

\* transaction t with its integers wide, as Tx.decode returns them
TxWide(t) ==
    [version |-> ToWide(t.version),
     inputs |-> [j \in 1..Len(t.inputs) |->
                   [prev_tx |-> t.inputs[j].prev_tx,
                    prev_idx |-> ToWide(t.inputs[j].prev_idx),
                    script_sig |-> t.inputs[j].script_sig,
                    seq |-> ToWide(t.inputs[j].seq)]],
     outputs |-> [o \in 1..Len(t.outputs) |->
                   [amount |-> ToWide(t.outputs[o].amount),
                    script_pubkey |-> t.outputs[o].script_pubkey]],
     locktime |-> ToWide(t.locktime)]

\* C11: for a legacy transaction tx with at least one input and scripts of
\* opcodes and pushes of 1..520 bytes, Tx.decode(tx.encode()) has the version,
\* inputs, outputs and locktime of tx.
C11_TxRoundTrip ==
    cop = "roundtrip" => (cout.pos >= 0 /\ cout.tx = TxWide(cin.tx))

\* C12: the transaction Tx.decode returns for a segwit serialization carries
\* the witness stack read for each input, an item of length 0 as an empty
\* item.
C12_WitnessKept ==
    cop = "segwit" =>
        /\ cout.pos >= 0
        /\ "witness" \in DOMAIN cout.tx
        /\ cout.tx.witness = [j \in 1..Len(cin.tx.inputs) |->
                                [k \in 1..Len(cin.stack) |-> Push(cin.stack[k])]]

----------------------------------------------------------------------------
(* Claims about the DER and SEC codecs.                                    *)

\* C15: for every signature with 1 <= r < N and 1 <= s < N,
\* Signature.decode(sig.encode()) is a signature with the same r and s.
C15_DerRoundTrip ==
    cop = "der" => cout = [r |-> cin.r, s |-> cin.s]

\* the curve equation y^2 = x^3 + A*x + B (mod P) at an affine point
OnCurve(pt) ==
    /\ pt.curve = 1
    /\ pt.x \in 0..(P - 1)
    /\ pt.y \in 0..(P - 1)
    /\ (pt.y * pt.y) % P = (pow(pt.x, 3, P) + A * pt.x + B) % P

\* C16: for every affine point pt of the curve, PublicKey.decode(pt.encode(
\* compressed)) is pt, compressed or not, and lies on the curve.
C16_SecRoundTrip ==
    cop = "sec" => (cout = cin.pt /\ OnCurve(cout))

\* a point of odd y went through the compressed form (prefix 03) and came back
C16_Witness ==
    /\ cop = "sec"
    /\ cin.compressed
    /\ cin.pt.y % 2 = 1
    /\ PublicKey_encode(cin.pt, TRUE, FALSE)[1] = 3
    /\ cout = cin.pt

\* C17: PublicKey.decode fails whenever the coordinates it decodes are off the
\* curve; the point it returns is never off the curve.
C17_DecodeOnCurve ==
    cop = "sec_decode" => (cout = RaisePt \/ OnCurve(cout))

----------------------------------------------------------------------------
(* Claims about the stream decoders.                                       *)

\* C19: decode_int, decode_varint, Block.decode, Script.decode and Tx.decode
\* fail when the stream ends before the bytes they read; none returns a value
\* built from a partial read.
C19_ShortReadFails ==
    (cop = "decoded" /\ Len(cin.b) < cin.need) => cout.pos < 0

----------------------------------------------------------------------------
(* Claims about Base58Check.                                               *)

\* C20: for b = version + payload + checksum, leading zero bytes included,
\* base58.decode(base58.encode(b), payload_only=False) is b and with
\* payload_only=True it is the payload; decoding the address of a public key
\* gives the hash160 of the key.
C20_Base58RoundTrip ==
    /\ cop = "base58" =>
          cout.dec = IF cin.payload_only THEN cin.payload
                     ELSE Base58Check(cin.version, cin.payload)
    /\ cop = "address" =>
          cout.dec = PublicKey_encode(PublicKey_from_private(cin.e),
                                      cin.compressed, TRUE)

\* a string that starts with two zero bytes was encoded with two leading "1"
\* and decoded back whole
C20_Witness ==
    /\ cop = "base58"
    /\ cin.version = <<0>>
    /\ cin.payload = <<0>>
    /\ ~cin.payload_only
    /\ Len(cout.enc) >= 2
    /\ cout.enc[1] = 49
    /\ cout.enc[2] = 49
    /\ cout.dec = Base58Check(cin.version, cin.payload)

----------------------------------------------------------------------------
(* Claims about proof of work.                                             *)

\* the coefficient and the exponent of cin.bits
BitsCoef == cin.bits[1]

BitsExp == cin.bits[Len(cin.bits)]

\* C21: to_target() is coef * 256^(exp - 3), coef the first three bytes of
\* bits little-endian and exp the last byte; difficulty() is the integer
\* floor of (0xFFFF * 256^(0x1D - 3)) / target whenever the target is
\* positive, and 1 for the bits of the target of lowest difficulty.
C21_TargetAndDifficulty ==
    /\ cop = "target" =>
          cout.num * Pow256(CoefBytes) = BitsCoef * Pow256(BitsExp) * cout.den
    /\ (cop = "difficulty" /\ BitsCoef > 0) =>
          cout = (DiffCoef * Pow256(DiffExp) * Block_to_target(cin).den)
                    \div (Block_to_target(cin).num * Pow256(CoefBytes))
    /\ (cop = "difficulty" /\ BitsCoef = DiffCoef /\ BitsExp = DiffExp) => cout = 1

----------------------------------------------------------------------------
(* Claims about the Merkle tree.                                           *)

\* the bytes of a hash, given as bytes or as a hex string
HashBytes(h) == IF h.type = "str" THEN bytes_fromhex(h.val) ELSE h.val

\* the leaves of the tree over cin: the ids byte-reversed
LeafBytes == [k \in 1..Len(cin) |-> Reverse(bytes_fromhex(cin[k].val))]

\* a level with its last hash repeated when its length is odd
EvenLevel(l) == IF Len(l) % 2 = 1 THEN Append(l, l[Len(l)]) ELSE l

\* the Merkle parent level of the level l of byte strings
ParentLevel(l) ==
    [j \in 1..(Len(EvenLevel(l)) \div 2) |->
        hash256(EvenLevel(l)[2 * j - 1] \o EvenLevel(l)[2 * j])]

RECURSIVE TopHash(_)
\* the single hash at the top of the tree over the level l
TopHash(l) == IF Len(l) = 1 THEN l[1] ELSE TopHash(ParentLevel(l))

\* C22: MerkleTree.construct(hashes).root is the top-level hash with its bytes
\* reversed: hash256(reverse(a) + reverse(b)) reversed for [a, b], and the
\* reversal of hash256(hash256(A + B) + hash256(C + C)) for [A, B, C].
C22_RootIsReversedTop ==
    cop = "merkle" =>
        /\ cout.root.type = "bytes"
        /\ cout.root.val = Reverse(TopHash(EvenLevel(LeafBytes)))

\* C28: every level above the leaves is the Merkle parent of the level below,
\* whose last hash is repeated when it is of odd length: ceil(m / 2) hashes
\* above m > 1; get_merkle_parent pairs the last of an odd list with itself.
C28_LevelsHalve ==
    /\ cop = "merkle" =>
          LET n == Len(cout.tree)
          IN  \A k \in 1..(n - 1) :
                 [j \in 1..Len(cout.tree[k].val) |-> HashBytes(cout.tree[k].val[j])]
                   = ParentLevel([j \in 1..Len(cout.tree[k + 1].val) |->
                                     HashBytes(cout.tree[k + 1].val[j])])
    /\ cop = "parent" =>
          [j \in 1..Len(cout) |-> HashBytes(cout[j])]
            = ParentLevel([j \in 1..Len(cin) |-> bytes_fromhex(cin[j].val)])

----------------------------------------------------------------------------
(* Claims about the curve arithmetic.                                      *)

\* a and b are the same point of the curve, neither an exception
SamePoint(a, b) == a.curve # -1 /\ b.curve # -1 /\ a.x = b.x /\ a.y = b.y

\* C23: k * P by double-and-add is P added to itself k times, for every
\* on-curve P and k >= 0: 0 * P is the point at infinity, and with G of order
\* N, N * G is the point at infinity and (N + k) * G = k * G.
C23_MulIsRepeatedAdd ==
    cop = "mul" =>
        /\ cin.k = 0 => cout.curve # -1 /\ cout.x = NoneVal
        /\ cin.k > 0 => SamePoint(cout, cin.sum)
        /\ cin.pt = G /\ cin.k = N => cout.curve # -1 /\ cout.x = NoneVal
        /\ cin.pt = G /\ cin.k >= N => SamePoint(cout, PointMul(cin.k - N, G))

\* C29: P + Q is the point at infinity when P = Q and P.y = 0, the doubling of
\* a point of order 2, as it is when P.x = Q.x and P.y # Q.y; the sum is never
\* an affine point then.
C29_DoublingOrderTwo ==
    cop = "padd" =>
        /\ cin.p = cin.q /\ cin.p.y = 0 => cout.curve # -1 /\ cout.x = NoneVal
        /\ cin.p.x = cin.q.x /\ cin.p.y # cin.q.y => cout.curve # -1 /\ cout.x = NoneVal

\* C24: for a prime p and b not divisible by p, modulardiv(a, b, p) is the
\* one q of 0..p-1 with q * b = a (mod p), which is a * b^(p-2) mod p
\* (modulardiv(8, 4, 5) = 2, modulardiv(8, 3, 5) = 1, modulardiv(11, 4, 5) = 4),
\* and the legacy Element division gives the same value.
C24_ModularDiv ==
    /\ cop = "div" =>
          /\ cout \in 0..(cin.p - 1)
          /\ \A q \in 0..(cin.p - 1) : (q * cin.b) % cin.p = cin.a % cin.p <=> q = cout
          /\ cin.p < P => cout = (cin.a * cin.b ^ (cin.p - 2)) % cin.p
          /\ cin = [a |-> 8, b |-> 4, p |-> 5] => cout = 2
          /\ cin = [a |-> 8, b |-> 3, p |-> 5] => cout = 1
          /\ cin = [a |-> 11, b |-> 4, p |-> 5] => cout = 4
    /\ cop = "truediv" =>
          /\ cout.order = cin.p
          /\ cout.num \in 0..(cin.p - 1)
          /\ (cout.num * cin.b) % cin.p = cin.a
          /\ cout.num = modulardiv(cin.a, cin.b, cin.p)

\* modulardiv(11, 4, 5) has returned 4
C24_Witness == cop = "div" /\ cin = [a |-> 11, b |-> 4, p |-> 5] /\ cout = 4

----------------------------------------------------------------------------
(* Claims about the nonce generator.                                       *)

\* C25: rfc6979 starts from V = 0x01 in every one of its 32 bytes and K = 0x00
\* in every one of its 32 bytes, and makes two rounds, with the separators 0x00
\* and 0x01, of K = HMAC(K, V + separator + bytes(e) + bytes(z)), V = HMAC(K, V).
C25_NonceStart ==
    cop = "nonce" =>
        LET K0 == [i \in 1..FieldBytes |-> 0]
            V0 == [i \in 1..FieldBytes |-> 1]
            K1 == hmac(K0, V0 \o <<0>> \o cout.st.sk \o cout.st.z)
            V1 == hmac(K1, V0)
            K2 == hmac(K1, V1 \o <<1>> \o cout.st.sk \o cout.st.z)
        IN  /\ cout.st.k = K0
            /\ cout.st.v = V0
            /\ cout.st.kv1 = [k |-> K1, v |-> V1]
            /\ cout.st.kv2 = [k |-> K2, v |-> hmac(K2, V1)]

\* C26: rfc6979 replaces z by z - N whenever z >= N, z = N included, so that
\* the z it encodes is below N for every z < 2N.
C26_ZReduced ==
    cop = "nonce" =>
        /\ cin.z >= N => from_bytes_big(cout.st.z) = cin.z - N
        /\ from_bytes_big(cout.st.z) < N

----------------------------------------------------------------------------
(* Script.decode on a serialized script inside a longer stream: the        *)
(* length prefix, the command stream, and the bytes that follow it.        *)

\* the lengths of the pushes decoded
WireLens == {1, 2, 75, 76, 255, 256, 520}

\* the scripts serialized: a push, opcodes around it or not
WireScripts ==
    {pre \o << Push(Blob(n, f)) >> \o suf :
        n \in WireLens, f \in {7, 255},
        pre \in {<<>>, << Op(118) >>, << Op(118), Op(169) >>},
        suf \in {<<>>, << Op(172) >>}}

\* what follows the script in the stream
WireTails == {<<>>, <<172, 255, 255, 255>>}

\* the stream Script.decode is given
WireBytes(w) == LengthPrefix(w.declared) \o CommandStream(w.cmds) \o w.tail

InitWire ==
    /\ cop = "none"
    /\ \E cmds \in WireScripts, tail \in WireTails, short \in {0, 1} :
          cin = [cmds |-> cmds, tail |-> tail,
                 declared |-> Len(CommandStream(cmds)) - short]
    /\ cout = <<>>

InitWireSpec == InitSigIdle /\ InitKeys /\ InitTxIdle /\ InitWire

\* Script.decode(stream)
ScriptDecodeWire ==
    /\ cop = "none"
    /\ cop' = "wire"
    /\ cout' = Script_decode(WireBytes(cin), 0)
    /\ UNCHANGED <<cin, sigVars, keyVars, txVars>>

NextWire == ScriptDecodeWire

SpecWire == InitWireSpec /\ [][NextWire]_vars

\* C27: Script.decode consumes exactly the declared number of script bytes,
\* the length bytes of OP_PUSHDATA1 and OP_PUSHDATA2 counted, and leaves the
\* cursor at the first byte after the script; a script whose last push ends
\* past the declared length is rejected.
C27_DecodeConsumesDeclared ==
    cop = "wire" =>
        LET L == Len(CommandStream(cin.cmds))
            pre == Len(LengthPrefix(cin.declared))
        IN  /\ cin.declared = L =>
                  /\ cout # RaiseScript
                  /\ cout.pos = pre + L
                  /\ cout.cmds = cin.cmds
            /\ cin.declared < L /\ ~cin.cmds[Len(cin.cmds)].isop => cout = RaiseScript

----------------------------------------------------------------------------
(* Claims about DER decoding.                                              *)

\* C30: Signature.decode rejects a byte string whose first byte is not 0x30,
\* whose r or s marker is not 0x02, whose body length or r or s length does not
\* match the bytes, or that carries bytes after the encoded s.
C30_DecodeStrict == cop = "der_malformed" => cout.sig = RaiseSig

====
